---- MODULE Spec2Model ----
(***************************************************************************)
(* byte-vision-mcp: the completion request handler and the argument        *)
(* resolver prepareLlamaArgs (main.go), the cancellable executor           *)
(* (model.go) and the configuration (types.go), as a state machine.        *)
(*                                                                         *)
(* One request is followed from its arrival to its response.  The units    *)
(* of concurrency are the ones the code creates: the caller of             *)
(* GenerateSingleCompletionWithCancel, the goroutine it launches, the      *)
(* child process, and the context (deadline timer / external cancel);      *)
(* a second call of the handler, as far as the globals it reads; main,     *)
(* the goroutine that runs runServer and the goroutine that runs           *)
(* server.Serve, with their channels, from the start of the server to      *)
(* the return of main.                                                     *)
(*                                                                         *)
(* Representation:                                                         *)
(*   - a Go string that the code parses or formats, and every string of    *)
(*     the request, of the llama-cli configuration and of the argument     *)
(*     vector, is a sequence of one-character strings (<<"3","0","0">> is  *)
(*     "300", <<>> is "");                                                 *)
(*   - a float64 of a request is kept in thousandths (700 is 0.7);         *)
(*   - a []byte is a sequence of one-character strings;                    *)
(*   - an error is its message, NoErr is the nil error;                    *)
(*   - the path of the executable is the sequence of its components        *)
(*     (split at the separator), <<>> is the empty path;                   *)
(*   - an int that the code parses from a string, and a time.Duration,     *)
(*     is an int64: its sign and the decimal digits of its magnitude,      *)
(*     most significant first, without leading zeros (<<>> is 0); an int   *)
(*     of a request is a number of the model;                              *)
(*   - a time.Duration is kept in nanoseconds.                             *)
(***************************************************************************)
EXTENDS Integers, Sequences, FiniteSets, TLC

VARIABLES
    env,            \* process environment after godotenv.Load (main.go:763)
    llamaEnv,       \* the llama-cli variables of that environment
    appArgs,        \* global appArgs (main.go:676)
    llamaCliArgs,   \* global llamaCliArgs (main.go:675)
    started,        \* main has parsed the configuration (main.go:768-769)
    arguments,      \* the request given to handleCompletionTool
    hpc,            \* handleCompletionTool: position
    timeoutSeconds, \* handleCompletionTool: local timeoutSeconds
    response,       \* handleCompletionTool: returned tool response content
    handlerErr,     \* handleCompletionTool: returned Go error
    args,           \* handleCompletionTool: local args, the argument vector
    pctx,           \* the context passed to the executor (its parent context)
    ctx,            \* executor: Err() of the child context of model.go:21
    epc,            \* executor: position of the calling goroutine
    gpc,            \* executor: position of the launched goroutine
    res,            \* launched goroutine: the value it sends on result
    chan,           \* the result channel: values delivered, closed
    proc,           \* the child process
    script,         \* what the child process does when it is left alone
    ret,            \* executor: returned (output, err)
    seen,           \* executor: which select cases the caller has taken
    hist,           \* history of the call: Err() of the given context when
                    \* the call began, which of the two signals became ready
                    \* first, the state of the child when the context became
                    \* done
    events,         \* history of the request, in the order of the code:
                    \* "args" prepareLlamaArgs has run, "exec" the executor
                    \* was entered, "spawn" a child process was started
    peer,           \* a second, concurrent call of handleCompletionTool:
                    \* its position, request, timeoutSeconds and args
    mpc,            \* main: position
    quit,           \* main: signals buffered in the channel quit
    serverErr,      \* main: values buffered in the channel serverErr
    sctx,           \* main: Err() of the server context ctx (main.go:779)
    shutdownCtx,    \* main: Err() of shutdownCtx (main.go:806)
    rpc,            \* the goroutine of main.go:788 that runs runServer:
                    \* position
    rret,           \* runServer: returned error
    errChan,        \* runServer: values buffered in the channel errChan
    spc,            \* the goroutine of runServer that runs server.Serve:
                    \* position
    mlog            \* history of main: which case each select took, the
                    \* sends and the receives on serverErr

vars == << env, llamaEnv, appArgs, llamaCliArgs, started, arguments, hpc,
           timeoutSeconds, response, handlerErr, args, pctx, ctx, epc, gpc,
           res, chan, proc, script, ret, seen, hist, events, peer, mpc, quit,
           serverErr, sctx, shutdownCtx, rpc, rret, errChan, spc, mlog >>

handlerVars == << arguments, hpc, timeoutSeconds, response, handlerErr, args >>
configVars  == << env, llamaEnv, appArgs, llamaCliArgs, started >>
mainVars    == << mpc, quit, serverErr, sctx, shutdownCtx, rpc, rret, errChan,
                  spc, mlog >>
execVars    == << pctx, ctx, epc, gpc, res, chan, proc, script, ret, seen,
                  hist >>

----------------------------------------------------------------------------
(* Bounds of the model *)

\* longest standard output the child process writes
MaxOutput == 2

----------------------------------------------------------------------------
(* Strings, numbers *)

Digits == <<"0", "1", "2", "3", "4", "5", "6", "7", "8", "9">>

IsDigit(c) == \E i \in 1..Len(Digits) : Digits[i] = c

DigitVal(c) == (CHOOSE i \in 1..Len(Digits) : Digits[i] = c) - 1

RECURSIVE FormatUint(_)
FormatUint(n) ==
    IF n < 10 THEN << Digits[n + 1] >>
    ELSE Append(FormatUint(n \div 10), Digits[(n % 10) + 1])

\* the first position from i on where s holds a character that stops a
\* loop, Len(s) + 1 when there is none
FirstStop(s, i, Stops(_)) ==
    IF \E j \in i..Len(s) : Stops(j)
    THEN CHOOSE j \in i..Len(s) : Stops(j) /\ \A k \in i..(j - 1) : ~Stops(k)
    ELSE Len(s) + 1

\* s without its leading zeros
stripZeros(s) ==
    LET Stops(j) == s[j] # "0"
    IN  SubSeq(s, FirstStop(s, 1, Stops), Len(s))

\* a and b compared as the decimal fractions 0.a and 0.b
CompareDigits(a, b) ==
    LET n == IF Len(a) < Len(b) THEN Len(b) ELSE Len(a)
        At(s, i) == IF i <= Len(s) THEN DigitVal(s[i]) ELSE 0
        differ == { i \in 1..n : At(a, i) # At(b, i) }
        first == CHOOSE i \in differ : \A j \in differ : i <= j
    IN  IF differ = {} THEN 0
        ELSE IF At(a, first) < At(b, first) THEN 0 - 1 ELSE 1

\* the int64 of a number of the model
Int64(n) ==
    [ neg |-> n < 0,
      abs |-> IF n = 0 THEN << >> ELSE FormatUint(IF n < 0 THEN 0 - n ELSE n) ]

\* v > 0 for an int64
Positive(v) == ~v.neg /\ v.abs # << >>

\* fmt.Sprintf("%d", v)
FormatInt(v) ==
    IF v.abs = << >> THEN << "0" >>
    ELSE IF v.neg THEN << "-" >> \o v.abs
    ELSE v.abs

\* two natural numbers compared, each the digits of its decimal numeral
\* without leading zeros
CompareNat(a, b) ==
    IF Len(a) < Len(b) THEN 0 - 1
    ELSE IF Len(a) > Len(b) THEN 1
    ELSE CompareDigits(a, b)

\* a - b for natural numbers a >= b: digit by digit, with the borrow from
\* the digits to the right
SubNat(a, b) ==
    LET n == Len(a)
        B(i) == IF i <= n - Len(b) THEN 0 ELSE DigitVal(b[i - (n - Len(b))])
        Borrow(i) == \E j \in (i + 1)..n :
                         /\ DigitVal(a[j]) < B(j)
                         /\ \A k \in (i + 1)..(j - 1) : DigitVal(a[k]) = B(k)
    IN  stripZeros([ i \in 1..n |->
            Digits[((DigitVal(a[i]) - B(i) - (IF Borrow(i) THEN 1 ELSE 0) + 10)
                        % 10) + 1] ])

RECURSIVE ReduceNat(_, _)
\* r - m as often as it can be taken
ReduceNat(r, m) == IF CompareNat(r, m) < 0 THEN r ELSE ReduceNat(SubNat(r, m), m)

RECURSIVE LongMod(_, _, _, _)
\* a modulo m by long division; r is the remainder of the digits of a
\* before position i
LongMod(a, i, r, m) ==
    IF CompareNat(r, m) < 0 /\ i <= Len(a)
    THEN LongMod(a, i + 1, ReduceNat(stripZeros(Append(r, a[i])), m), m)
    ELSE r

\* 2^63 and 2^64
TwoTo63 ==
    << "9", "2", "2", "3", "3", "7", "2", "0", "3", "6", "8", "5", "4", "7",
       "7", "5", "8", "0", "8" >>
TwoTo64 ==
    << "1", "8", "4", "4", "6", "7", "4", "4", "0", "7", "3", "7", "0", "9",
       "5", "5", "1", "6", "1", "6" >>

\* the int64 whose 64 bits are those of the natural number r < 2^64
Signed64(r) ==
    IF CompareNat(r, TwoTo63) >= 0
    THEN [ neg |-> TRUE, abs |-> SubNat(TwoTo64, r) ]
    ELSE [ neg |-> FALSE, abs |-> r ]

\* the 64 bits of a number, m its magnitude modulo 2^64
Unsigned64(neg, m) == IF neg /\ m # << >> THEN SubNat(TwoTo64, m) ELSE m

\* int64 arithmetic wraps around: the int64 of the number with the sign neg
\* and the magnitude abs
Wrap64(neg, abs) == Signed64(Unsigned64(neg, LongMod(abs, 1, << >>, TwoTo64)))

\* time.Duration(n) * time.Second: n * 10^9 nanoseconds as an int64
Seconds(n) ==
    Wrap64(n.neg,
           IF n.abs = << >> THEN << >>
           ELSE n.abs \o << "0", "0", "0", "0", "0", "0", "0", "0", "0" >>)

\* strconv.Atoi, the range: a magnitude beyond int64 is an error, and the
\* value the nearest int64
atoiRange(neg, abs) ==
    IF CompareNat(abs, TwoTo63) > 0 \/ (~neg /\ abs = TwoTo63)
    THEN [ ok  |-> FALSE,
           val |-> [ neg |-> neg,
                     abs |-> IF neg THEN TwoTo63
                             ELSE SubNat(TwoTo63, << "1" >>) ] ]
    ELSE [ ok |-> TRUE, val |-> [ neg |-> neg /\ abs # << >>, abs |-> abs ] ]

\* strconv.Atoi: an optional sign, then one or more decimal digits, of a
\* value within int64.  The digits are read from the left: digits that
\* reach 2^64 before a character that is no digit are a range error (with
\* the nearest int64), a character that is no digit met before that is a
\* syntax error (with 0).
Atoi(s) ==
    LET signed == Len(s) > 0 /\ s[1] \in {"+", "-"}
        body   == IF signed THEN Tail(s) ELSE s
        n      == CHOOSE k \in 0..Len(body) :
                      /\ \A i \in 1..k : IsDigit(body[i])
                      /\ k = Len(body) \/ ~IsDigit(body[k + 1])
        read   == stripZeros(SubSeq(body, 1, n))
    IN  IF Len(body) = 0 \/ (n < Len(body) /\ CompareNat(read, TwoTo64) < 0)
        THEN [ ok |-> FALSE, val |-> Int64(0) ]
        ELSE atoiRange(signed /\ s[1] = "-", read)

\* the first position of s that holds a character of cs, 0 when there is none
IndexAny(s, cs) ==
    IF \E i \in 1..Len(s) : s[i] \in cs
    THEN CHOOSE i \in 1..Len(s) :
             s[i] \in cs /\ \A j \in 1..(i - 1) : s[j] \notin cs
    ELSE 0

\* strconv: lower(c), for the ASCII letters
UpperCase == << "A", "B", "C", "D", "E", "F", "G", "H", "I", "J", "K", "L", "M",
               "N", "O", "P", "Q", "R", "S", "T", "U", "V", "W", "X", "Y", "Z" >>
LowerCase == << "a", "b", "c", "d", "e", "f", "g", "h", "i", "j", "k", "l", "m",
               "n", "o", "p", "q", "r", "s", "t", "u", "v", "w", "x", "y", "z" >>
lower(c) ==
    IF \E i \in 1..26 : UpperCase[i] = c
    THEN LowerCase[CHOOSE i \in 1..26 : UpperCase[i] = c]
    ELSE c

\* a hexadecimal digit that is a letter, and the value of a hexadecimal digit
IsHexLetter(c) == lower(c) \in { "a", "b", "c", "d", "e", "f" }
HexVal(c) ==
    IF IsDigit(c) THEN DigitVal(c)
    ELSE 9 + (CHOOSE i \in 1..6 : LowerCase[i] = lower(c))

\* strconv: commonPrefixLenIgnoreCase(s, prefix), prefix in lower case
commonPrefixLenIgnoreCase(s, prefix) ==
    LET n == IF Len(s) < Len(prefix) THEN Len(s) ELSE Len(prefix)
        differ == { i \in 1..n : lower(s[i]) # prefix[i] }
    IN  IF differ = {} THEN n
        ELSE (CHOOSE i \in differ : \A j \in differ : i <= j) - 1

\* strconv: special(s), the infinities and NaN: an optional sign and "inf"
\* or "infinity", or "nan" without a sign, in any case of the letters; n is
\* the number of characters taken
special(s) ==
    LET signed == Len(s) > 0 /\ s[1] \in {"+", "-"}
        body   == IF signed THEN Tail(s) ELSE s
        nsign  == IF signed THEN 1 ELSE 0
        inf    == commonPrefixLenIgnoreCase(body,
                      << "i", "n", "f", "i", "n", "i", "t", "y" >>)
        ninf   == IF 3 < inf /\ inf < 8 THEN 3 ELSE inf
        none   == [ ok |-> FALSE, n |-> 0, class |-> "zero", neg |-> FALSE ]
    IN  IF Len(s) = 0 THEN none
        ELSE IF s[1] \in { "+", "-", "i", "I" }
        THEN IF ninf \in {3, 8}
             THEN [ ok |-> TRUE, n |-> nsign + ninf, class |-> "inf",
                    neg |-> s[1] = "-" ]
             ELSE none
        ELSE IF s[1] \in { "n", "N" }
        THEN IF commonPrefixLenIgnoreCase(s, << "n", "a", "n" >>) = 3
             THEN [ ok |-> TRUE, n |-> 3, class |-> "nan", neg |-> FALSE ]
             ELSE none
        ELSE none

\* strconv: the loop of underscoreOK from position i; saw is the kind of the
\* character before position i: "0" a digit or the base prefix, "_", "!"
\* another one, "^" the beginning.  An underscore must follow a digit and
\* be followed by one.
underscoreScan(s, i, saw, hex) ==
    LET Kind(j) == IF j < i THEN saw
                   ELSE IF IsDigit(s[j]) \/ (hex /\ IsHexLetter(s[j])) THEN "0"
                   ELSE IF s[j] = "_" THEN "_"
                   ELSE "!"
    IN  /\ \A j \in i..Len(s) :
              /\ Kind(j) = "_" => Kind(j - 1) = "0"
              /\ Kind(j) = "!" => Kind(j - 1) # "_"
        /\ Kind(Len(s)) # "_"

\* strconv: underscoreOK(s), an underscore stands between two digits or
\* between the base prefix and a digit
underscoreOK(s) ==
    LET body   == IF Len(s) >= 1 /\ s[1] \in {"+", "-"} THEN Tail(s) ELSE s
        prefix == Len(body) >= 2 /\ body[1] = "0"
                      /\ lower(body[2]) \in { "b", "o", "x" }
    IN  IF prefix THEN underscoreScan(body, 3, "0", lower(body[2]) = "x")
        ELSE underscoreScan(body, 1, "^", FALSE)

\* strconv: the digits loop of readFloat from position i; the first position
\* it does not take: digits, underscores and one point are taken
mantissaEnd(s, i, hex) ==
    LET Stops(j) ==
            IF s[j] = "." THEN \E k \in i..(j - 1) : s[k] = "."
            ELSE ~(s[j] = "_" \/ IsDigit(s[j]) \/ (hex /\ IsHexLetter(s[j])))
    IN  FirstStop(s, i, Stops)

\* strconv: the exponent loop of readFloat: digits and underscores are taken
exponentEnd(s, i) ==
    LET Stops(j) == ~(IsDigit(s[j]) \/ s[j] = "_")
    IN  FirstStop(s, i, Stops)

RECURSIVE exponentValue(_, _)
\* strconv: the exponent of readFloat, s its digits: e = e*10 + digit
\* while e < 10000
exponentValue(e, s) ==
    IF s = <<>> \/ e >= 10000 THEN e
    ELSE exponentValue(e * 10 + DigitVal(Head(s)), Tail(s))

\* a character of the mantissa that is a digit
IsMantissaDigit(c) == c \notin { "_", "." }

\* strconv: readFloat, its end: the exponent has been read up to position
\* i4 (not included); all holds the digits of the mantissa, nfrac of them
\* after the point
readFloatEnd(s, neg, hex, all, nfrac, hasExp, n, e) ==
    LET fail   == [ ok |-> FALSE, n |-> 0, neg |-> FALSE, hex |-> FALSE,
                    digits |-> <<>>, dp |-> 0 ]
        digits == stripZeros(all)
        dp0    == Len(digits) - nfrac
        dp1    == IF hex THEN dp0 * 4 ELSE dp0
    IN  IF all = <<>> THEN fail
        ELSE IF ~hasExp /\ hex THEN fail
        ELSE IF (\E i \in 1..n : s[i] = "_") /\ ~underscoreOK(SubSeq(s, 1, n))
             THEN fail
        ELSE [ ok |-> TRUE, n |-> n, neg |-> neg, hex |-> hex,
               digits |-> digits, dp |-> IF hasExp THEN dp1 + e ELSE dp1 ]

\* strconv: readFloat, the exponent: the mantissa is s[i1..i2-1], hasExp
\* tells that the exponent character stands at i2
readExponent(s, neg, hex, i1, i2, hasExp) ==
    LET fail    == [ ok |-> FALSE, n |-> 0, neg |-> FALSE, hex |-> FALSE,
                     digits |-> <<>>, dp |-> 0 ]
        mant    == SubSeq(s, i1, i2 - 1)
        dot     == IF \E i \in i1..(i2 - 1) : s[i] = "."
                   THEN (CHOOSE i \in i1..(i2 - 1) : s[i] = ".") - i1 + 1
                   ELSE 0
        frac    == IF dot = 0 THEN <<>>
                   ELSE SelectSeq(SubSeq(mant, dot + 1, Len(mant)),
                                  IsMantissaDigit)
        esigned == i2 + 1 <= Len(s) /\ s[i2 + 1] \in {"+", "-"}
        i3      == IF esigned THEN i2 + 2 ELSE i2 + 1
        esign   == IF esigned /\ s[i2 + 1] = "-" THEN 0 - 1 ELSE 1
        i4      == exponentEnd(s, i3)
    IN  IF hasExp /\ (i3 > Len(s) \/ ~IsDigit(s[i3])) THEN fail
        ELSE readFloatEnd(s, neg, hex, SelectSeq(mant, IsMantissaDigit),
                          Len(frac), hasExp,
                          IF hasExp THEN i4 - 1 ELSE i2 - 1,
                          esign * exponentValue(0,
                              SelectSeq(SubSeq(s, i3, i4 - 1), IsMantissaDigit)))

\* strconv: readFloat, the mantissa from position i1, after the sign and
\* the base prefix
readMantissa(s, neg, hex, i1, i2) ==
    readExponent(s, neg, hex, i1, i2,
                 i2 <= Len(s) /\ lower(s[i2]) = (IF hex THEN "p" ELSE "e"))

\* strconv: readFloat, after the sign: the base prefix 0x
readPrefix(s, neg, i0, hex) ==
    readMantissa(s, neg, hex, IF hex THEN i0 + 2 ELSE i0,
                 mantissaEnd(s, IF hex THEN i0 + 2 ELSE i0, hex))

\* strconv: readFloat(s).  n is the number of characters taken, digits the
\* digits of the mantissa without its leading zeros, and the value is
\* 0.digits * 10^dp, or 0.digits (in base 16) * 2^dp when hex.
readFloat(s) ==
    LET fail   == [ ok |-> FALSE, n |-> 0, neg |-> FALSE, hex |-> FALSE,
                    digits |-> <<>>, dp |-> 0 ]
        signed == Len(s) > 0 /\ s[1] \in {"+", "-"}
        i0     == IF signed THEN 2 ELSE 1
    IN  IF Len(s) = 0 \/ i0 > Len(s) THEN fail
        ELSE readPrefix(s, signed /\ s[1] = "-", i0,
                        i0 + 2 <= Len(s) /\ s[i0] = "0"
                            /\ lower(s[i0 + 1]) = "x")

\* the decimal digits of 2^1024 - 2^970, half-way between the largest
\* float64 and 2^1024: a number that is not below it is out of range
MaxFloat64Tie ==
    << "1", "7", "9", "7", "6", "9", "3", "1", "3", "4", "8", "6", "2", "3", "1",
       "5", "8", "0", "7", "9", "3", "7", "2", "8", "9", "7", "1", "4", "0", "5",
       "3", "0", "3", "4", "1", "5", "0", "7", "9", "9", "3", "4", "1", "3", "2",
       "7", "1", "0", "0", "3", "7", "8", "2", "6", "9", "3", "6", "1", "7", "3",
       "7", "7", "8", "9", "8", "0", "4", "4", "4", "9", "6", "8", "2", "9", "2",
       "7", "6", "4", "7", "5", "0", "9", "4", "6", "6", "4", "9", "0", "1", "7",
       "9", "7", "7", "5", "8", "7", "2", "0", "7", "0", "9", "6", "3", "3", "0",
       "2", "8", "6", "4", "1", "6", "6", "9", "2", "8", "8", "7", "9", "1", "0",
       "9", "4", "6", "5", "5", "5", "5", "4", "7", "8", "5", "1", "9", "4", "0",
       "4", "0", "2", "6", "3", "0", "6", "5", "7", "4", "8", "8", "6", "7", "1",
       "5", "0", "5", "8", "2", "0", "6", "8", "1", "9", "0", "8", "9", "0", "2",
       "0", "0", "0", "7", "0", "8", "3", "8", "3", "6", "7", "6", "2", "7", "3",
       "8", "5", "4", "8", "4", "5", "8", "1", "7", "7", "1", "1", "5", "3", "1",
       "7", "6", "4", "4", "7", "5", "7", "3", "0", "2", "7", "0", "0", "6", "9",
       "8", "5", "5", "5", "7", "1", "3", "6", "6", "9", "5", "9", "6", "2", "2",
       "8", "4", "2", "9", "1", "4", "8", "1", "9", "8", "6", "0", "8", "3", "4",
       "9", "3", "6", "4", "7", "5", "2", "9", "2", "7", "1", "9", "0", "7", "4",
       "1", "6", "8", "4", "4", "4", "3", "6", "5", "5", "1", "0", "7", "0", "4",
       "3", "4", "2", "7", "1", "1", "5", "5", "9", "6", "9", "9", "5", "0", "8",
       "0", "9", "3", "0", "4", "2", "8", "8", "0", "1", "7", "7", "9", "0", "4",
       "1", "7", "4", "4", "9", "7", "7", "9", "2" >>

\* the decimal digits of 2^(-1075) after 0.(323 zeros), half-way between 0
\* and the smallest float64: a number that is not above it is rounded to 0
MinFloat64Tie ==
    << "2", "4", "7", "0", "3", "2", "8", "2", "2", "9", "2", "0", "6", "2", "3",
       "2", "7", "2", "0", "8", "8", "2", "8", "4", "3", "9", "6", "4", "3", "4",
       "1", "1", "0", "6", "8", "6", "1", "8", "2", "5", "2", "9", "9", "0", "1",
       "3", "0", "7", "1", "6", "2", "3", "8", "2", "2", "1", "2", "7", "9", "2",
       "8", "4", "1", "2", "5", "0", "3", "3", "7", "7", "5", "3", "6", "3", "5",
       "1", "0", "4", "3", "7", "5", "9", "3", "2", "6", "4", "9", "9", "1", "8",
       "1", "8", "0", "8", "1", "7", "9", "9", "6", "1", "8", "9", "8", "9", "8",
       "2", "8", "2", "3", "4", "7", "7", "2", "2", "8", "5", "8", "8", "6", "5",
       "4", "6", "3", "3", "2", "8", "3", "5", "5", "1", "7", "7", "9", "6", "9",
       "8", "9", "8", "1", "9", "9", "3", "8", "7", "3", "9", "8", "0", "0", "5",
       "3", "9", "0", "9", "3", "9", "0", "6", "3", "1", "5", "0", "3", "5", "6",
       "5", "9", "5", "1", "5", "5", "7", "0", "2", "2", "6", "3", "9", "2", "2",
       "9", "0", "8", "5", "8", "3", "9", "2", "4", "4", "9", "1", "0", "5", "1",
       "8", "4", "4", "3", "5", "9", "3", "1", "8", "0", "2", "8", "4", "9", "9",
       "3", "6", "5", "3", "6", "1", "5", "2", "5", "0", "0", "3", "1", "9", "3",
       "7", "0", "4", "5", "7", "6", "7", "8", "2", "4", "9", "2", "1", "9", "3",
       "6", "5", "6", "2", "3", "6", "6", "9", "8", "6", "3", "6", "5", "8", "4",
       "8", "0", "7", "5", "7", "0", "0", "1", "5", "8", "5", "7", "6", "9", "2",
       "6", "9", "9", "0", "3", "7", "0", "6", "3", "1", "1", "9", "2", "8", "2",
       "7", "9", "5", "5", "8", "5", "5", "1", "3", "3", "2", "9", "2", "7", "8",
       "3", "4", "3", "3", "8", "4", "0", "9", "3", "5", "1", "9", "7", "8", "0",
       "1", "5", "5", "3", "1", "2", "4", "6", "5", "9", "7", "2", "6", "3", "5",
       "7", "9", "5", "7", "4", "6", "2", "2", "7", "6", "6", "4", "6", "5", "2",
       "7", "2", "8", "2", "7", "2", "2", "0", "0", "5", "6", "3", "7", "4", "0",
       "0", "6", "4", "8", "5", "4", "9", "9", "9", "7", "7", "0", "9", "6", "5",
       "9", "9", "4", "7", "0", "4", "5", "4", "0", "2", "0", "8", "2", "8", "1",
       "6", "6", "2", "2", "6", "2", "3", "7", "8", "5", "7", "3", "9", "3", "4",
       "5", "0", "7", "3", "6", "3", "3", "9", "0", "0", "7", "9", "6", "7", "7",
       "6", "1", "9", "3", "0", "5", "7", "7", "5", "0", "6", "7", "4", "0", "1",
       "7", "6", "3", "2", "4", "6", "7", "3", "6", "0", "0", "9", "6", "8", "9",
       "5", "1", "3", "4", "0", "5", "3", "5", "5", "3", "7", "4", "5", "8", "5",
       "1", "6", "6", "6", "1", "1", "3", "4", "2", "2", "3", "7", "6", "6", "6",
       "7", "8", "6", "0", "4", "1", "6", "2", "1", "5", "9", "6", "8", "0", "4",
       "6", "1", "9", "1", "4", "4", "6", "7", "2", "9", "1", "8", "4", "0", "3",
       "0", "0", "5", "3", "0", "0", "5", "7", "5", "3", "0", "8", "4", "9", "0",
       "4", "8", "7", "6", "5", "3", "9", "1", "7", "1", "1", "3", "8", "6", "5",
       "9", "1", "6", "4", "6", "2", "3", "9", "5", "2", "4", "9", "1", "2", "6",
       "2", "3", "6", "5", "3", "8", "8", "1", "8", "7", "9", "6", "3", "6", "2",
       "3", "9", "3", "7", "3", "2", "8", "0", "4", "2", "3", "8", "9", "1", "0",
       "1", "8", "6", "7", "2", "3", "4", "8", "4", "9", "7", "6", "6", "8", "2",
       "3", "5", "0", "8", "9", "8", "6", "3", "3", "8", "8", "5", "8", "7", "9",
       "2", "5", "6", "2", "8", "3", "0", "2", "7", "5", "5", "9", "9", "5", "6",
       "5", "7", "5", "2", "4", "4", "5", "5", "5", "0", "7", "2", "5", "5", "1",
       "8", "9", "3", "1", "3", "6", "9", "0", "8", "3", "6", "2", "5", "4", "7",
       "7", "9", "1", "8", "6", "9", "4", "8", "6", "6", "7", "9", "9", "4", "9",
       "6", "8", "3", "2", "4", "0", "4", "9", "7", "0", "5", "8", "2", "1", "0",
       "2", "8", "5", "1", "3", "1", "8", "5", "4", "5", "1", "3", "9", "6", "2",
       "1", "3", "8", "3", "7", "7", "2", "2", "8", "2", "6", "1", "4", "5", "4",
       "3", "7", "6", "9", "3", "4", "1", "2", "5", "3", "2", "0", "9", "8", "5",
       "9", "1", "3", "2", "7", "6", "6", "7", "2", "3", "6", "3", "2", "8", "1",
       "2", "5" >>

\* the float64 of 0.digits * 10^dp, digits without leading zeros: "range"
\* when it overflows, else "zero" or "finite"
DecimalClass(digits, dp) ==
    IF digits = <<>> THEN "zero"
    ELSE IF dp > Len(MaxFloat64Tie) THEN "range"
    ELSE IF dp = Len(MaxFloat64Tie) /\ CompareDigits(digits, MaxFloat64Tie) >= 0
         THEN "range"
    ELSE IF dp < 0 - 323 THEN "zero"
    ELSE IF dp = 0 - 323 /\ CompareDigits(digits, MinFloat64Tie) <= 0
         THEN "zero"
    ELSE "finite"

\* the four bits of a hexadecimal digit
HexBits(c) ==
    LET v == HexVal(c)
    IN  << v \div 8, (v \div 4) % 2, (v \div 2) % 2, v % 2 >>

\* the bits of a sequence of hexadecimal digits
BitsOf(digits) ==
    [ i \in 1..(4 * Len(digits)) |->
          HexBits(digits[((i - 1) \div 4) + 1])[((i - 1) % 4) + 1] ]

\* strconv: atofHex, the float64 of 0.digits (in base 16) * 2^dp, digits
\* without leading zeros, rounded to 53 bits, a tie to even
HexClass(digits, dp) ==
    LET bits == BitsOf(digits)
        lead == CHOOSE i \in 1..4 : bits[i] = 1 /\ \A j \in 1..(i - 1) : bits[j] = 0
        \* the value is in [2^(top - 1), 2^top)
        top  == dp - (lead - 1)
    IN  IF digits = <<>> THEN "zero"
        ELSE IF top > 1024 THEN "range"
        ELSE IF /\ top = 1024
                /\ Len(bits) >= lead + 53
                /\ \A i \in lead..(lead + 53) : bits[i] = 1
             THEN "range"
        ELSE IF top < 0 - 1074 THEN "zero"
        ELSE IF top = 0 - 1074 /\ \A i \in (lead + 1)..Len(bits) : bits[i] = 0
             THEN "zero"
        ELSE "finite"

\* strconv: atof64, its result for a number readFloat has read: a value
\* out of range is an error (and the value an infinity)
floatBits(neg, class) ==
    IF class = "range"
    THEN [ ok |-> FALSE, class |-> "inf", neg |-> neg ]
    ELSE [ ok |-> TRUE, class |-> class, neg |-> neg ]

\* strconv: atof64 (through parseFloatPrefix, which requires that the whole
\* of s is taken), sp what special found and rf what readFloat read
atof64(s, sp, rf) ==
    LET syntax == [ ok |-> FALSE, class |-> "zero", neg |-> FALSE ]
    IN  IF sp.ok
        THEN IF sp.n = Len(s)
             THEN [ ok |-> TRUE, class |-> sp.class, neg |-> sp.neg ]
             ELSE syntax
        ELSE IF ~rf.ok \/ rf.n # Len(s) THEN syntax
        ELSE floatBits(rf.neg, IF rf.hex THEN HexClass(rf.digits, rf.dp)
                               ELSE DecimalClass(rf.digits, rf.dp))

\* strconv.ParseFloat(s, 64): ok is err == nil; class and neg describe the
\* value: 0, a finite number that is not 0, an infinity or NaN.  A syntax
\* error and a value out of range are errors; a value too small for a
\* float64 is 0 with no error.
ParseFloat(s) == atof64(s, special(s), readFloat(s))

\* v > 0 for the value ParseFloat returned
GreaterThanZero(f) == ~f.neg /\ f.class \in { "finite", "inf" }

RECURSIVE Log2(_)
\* the k with 2^k <= n < 2^(k+1), n >= 1
Log2(n) == IF n < 2 THEN 0 ELSE 1 + Log2(n \div 2)

RECURSIVE Pow2Mod(_, _)
\* 2^e modulo n
Pow2Mod(e, n) == IF e = 0 THEN 1 % n ELSE (2 * Pow2Mod(e - 1, n)) % n

RECURSIVE Doublings(_)
\* the j with 1000 <= m * 2^j < 2000, 0 < m < 1000
Doublings(m) == IF m >= 1000 THEN 0 ELSE 1 + Doublings(2 * m)

\* The float64 of a request: the one nearest to m thousandths, m > 0.  With
\* 2^k <= m/1000 < 2^(k+1) it is n / 2^(52-k) for the integer n nearest to
\* m * 2^(52-k) / 1000; the remainder of that division tells whether the
\* float64 is below m/1000 (-1), is m/1000 (0) or is above it (1).  The
\* remainder is never 500, as m * 2^(52-k) is a multiple of 8.
Float64Side(m) ==
    LET k == IF m >= 1000 THEN Log2(m \div 1000) ELSE 0 - Doublings(m)
        r == ((m % 1000) * Pow2Mod(52 - k, 1000)) % 1000
    IN  IF r = 0 THEN 0 ELSE IF r < 500 THEN 0 - 1 ELSE 1

\* faulty variant of FormatFloat2: the third fractional digit is cut off
FormatFloat2_Truncate(m) ==
    LET h == m \div 10
    IN  FormatUint(h \div 100) \o << "." >>
            \o << Digits[((h \div 10) % 10) + 1], Digits[(h % 10) + 1] >>

\* fmt.Sprintf("%.2f", x) for the float64 x nearest to m thousandths,
\* m >= 0: the value of x, which is seldom m thousandths exactly, is rounded
\* to hundredths, a tie to the even one.  A tie happens only where m
\* thousandths is a float64, that is for the multiples of 125; any other m
\* that ends in 5 is rounded to the side its float64 lies on.
FormatFloat2(m) ==
    LET q == m \div 10
        r == m % 10
        up == \/ r > 5
              \/ r = 5 /\ Float64Side(m) = 1
              \/ r = 5 /\ Float64Side(m) = 0 /\ q % 2 = 1
        h == IF up THEN q + 1 ELSE q
    IN  FormatUint(h \div 100) \o << "." >>
            \o << Digits[((h \div 10) % 10) + 1], Digits[(h % 10) + 1] >>

----------------------------------------------------------------------------
(* Errors *)

NoErr               == "nil"
ErrDeadlineExceeded == "context deadline exceeded"
ErrCanceled         == "context canceled"
ErrNotFound         == "exec: executable file not found in $PATH"
ErrNoCommand        == "exec: no command"
ErrForkExec         == "fork/exec: no such file or directory"
ErrExitStatus       == "exit status 1"
ErrKilled           == "signal: killed"

\* errors.Is(err, context.DeadlineExceeded)
IsDeadlineExceeded(err) == err = ErrDeadlineExceeded

----------------------------------------------------------------------------
(* Configuration: types.go *)

\* values of the TimeOutSeconds environment variable; <<>> is unset
TimeOutSecondsEnv ==
    { <<>>, <<"a", "b">>, <<"1", "2", "x">>, <<"0">>, <<"-", "5">>,
      <<"+", "7">>, <<"2">>, <<"4", "5">>, <<"3", "0", "0">>,
      \* 2^63, beyond int64: strconv.Atoi returns a range error
      <<"9", "2", "2", "3", "3", "7", "2", "0", "3", "6", "8", "5", "4", "7",
        "7", "5", "8", "0", "8">>,
      \* an int64 whose product with time.Second is beyond int64
      <<"9", "2", "2", "3", "3", "7", "2", "0", "3", "7">> }

\* the llama-cli executable installed on this machine
InstalledCli == << "", "llamacpp", "llama-cli" >>

\* values of the LLamaCliPath environment variable
LLamaCliPathEnv ==
    { InstalledCli,                        \* /llamacpp/llama-cli
      << "", "nowhere", "llama-cli" >>,    \* /nowhere/llama-cli, no such file
      << "llama-cli" >>,                   \* a bare name that is not on PATH
      << >> }                              \* unset

\* getEnvInt(key, fallback), val the value of os.Getenv(key)
getEnvInt(val, fallback) ==
    IF val # <<>> /\ Atoi(val).ok THEN Atoi(val).val ELSE fallback

\* the fallback ParseDefaultAppEnv gives to TimeOutSeconds
DefaultTimeOutSeconds == 300

ParseDefaultAppEnv(e) ==
    [ LLamaCliPath   |-> e.LLamaCliPath,
      TimeOutSeconds |-> getEnvInt(e.TimeOutSeconds, Int64(DefaultTimeOutSeconds)) ]

\* the zero value of DefaultAppArgs
ZeroAppArgs == [ LLamaCliPath |-> <<>>, TimeOutSeconds |-> Int64(0) ]

----------------------------------------------------------------------------
(* Configuration of llama-cli: types.go *)

\* The llama-cli variables of the environment, every one of them set: a
\* flag token for each option, a default value or an enabled bit.
FullLlamaEnv ==
    [ ModelCmd                 |-> <<"-", "m">>,
      ModelFullPathVal         |-> <<"/", "m", ".", "g", "g", "u", "f">>,
      PromptCmd                |-> <<"-", "p">>,
      PromptCmdEnabled         |-> <<"t", "r", "u", "e">>,
      PromptText               |-> <<"s", "y", "s">>,
      ChatTemplateCmd          |-> <<"-", "-", "j", "i", "n", "j", "a">>,
      ChatTemplateVal          |-> <<"c", "h", "a", "t", "m", "l">>,
      MultilineInputCmd        |-> <<"-", "m", "l", "i">>,
      MultilineInputCmdEnabled |-> <<"t", "r", "u", "e">>,
      CtxSizeCmd               |-> <<"-", "-", "c", "t", "x", "-", "s", "i", "z", "e">>,
      CtxSizeVal               |-> <<"4", "0", "9", "6", "0">>,
      RopeScalingCmd           |-> <<"-", "-", "r", "s">>,
      RopeScalingCmdVal        |-> <<"y", "a", "r", "n">>,
      RopeScaleCmd             |-> <<"-", "-", "r", "o", "p", "e">>,
      RopeScaleVal             |-> <<"2", ".", "5">>,
      PromptCacheAllCmd        |-> <<"-", "-", "p", "c", "a">>,
      PromptCacheCmd           |-> <<"-", "-", "p", "c">>,
      PromptCacheVal           |-> <<"/", "p", "c">>,
      PromptFileCmd            |-> <<"-", "f">>,
      PromptFileVal            |-> <<"/", "d", ".", "t", "x", "t">>,
      ReversePromptCmd         |-> <<"-", "r">>,
      ReversePromptVal         |-> <<"U", ":">>,
      InPrefixCmd              |-> <<"-", "-", "i", "n">>,
      InPrefixVal              |-> <<">">>,
      InSuffixCmd              |-> <<"-", "-", "o", "u", "t">>,
      InSuffixVal              |-> <<"<">>,
      GPULayersCmd             |-> <<"-", "n", "g", "l">>,
      GPULayersVal             |-> <<"3", "3">>,
      ThreadsBatchCmd          |-> <<"-", "t", "b">>,
      ThreadsBatchVal          |-> <<"6">>,
      ThreadsCmd               |-> <<"-", "t">>,
      ThreadsVal               |-> <<"8">>,
      KeepCmd                  |-> <<"-", "-", "k", "e", "e", "p">>,
      KeepVal                  |-> <<"-", "1">>,
      TopKCmd                  |-> <<"-", "-", "t", "o", "p", "-", "k">>,
      TopKVal                  |-> <<"2", "0">>,
      MainGPUCmd               |-> <<"-", "m", "g">>,
      MainGPUVal               |-> <<"2">>,
      RepeatPenaltyCmd         |-> <<"-", "-", "r", "p">>,
      RepeatPenaltyVal         |-> <<"1", ".", "1">>,
      RepeatLastPenaltyCmd     |-> <<"-", "-", "r", "l">>,
      RepeatLastPenaltyVal     |-> <<"6", "4">>,
      MemLockCmd               |-> <<"-", "-", "m", "l", "o", "c", "k">>,
      MemLockCmdEnabled        |-> <<"t", "r", "u", "e">>,
      EscapeNewLinesCmd        |-> <<"-", "e">>,
      EscapeNewLinesCmdEnabled |-> <<"t", "r", "u", "e">>,
      LogVerboseCmd            |-> <<"-", "v">>,
      LogVerboseEnabled        |-> <<"t", "r", "u", "e">>,
      TemperatureVal           |-> <<"0", ".", "6">>,
      TemperatureCmd           |-> <<"-", "-", "t", "e", "m", "p">>,
      PredictCmd               |-> <<"-", "n">>,
      PredictVal               |-> <<"2", "5", "6", "0">>,
      NoDisplayPromptCmd       |-> <<"-", "-", "n", "d", "p">>,
      NoDisplayPromptEnabled   |-> <<"t", "r", "u", "e">>,
      TopPCmd                  |-> <<"-", "-", "t", "o", "p", "-", "p">>,
      TopPVal                  |-> <<"0", ".", "9", "5">>,
      MinPCmd                  |-> <<"-", "-", "m", "i", "n", "-", "p">>,
      MinPVal                  |-> <<"0", ".", "0", "5">>,
      ModelLogFileCmd          |-> <<"-", "-", "l", "o", "g">>,
      ModelLogFileNameVal      |-> <<"/", "l", ".", "l", "o", "g">>,
      FlashAttentionCmd        |-> <<"-", "f", "a">>,
      FlashAttentionCmdEnabled |-> <<"t", "r", "u", "e">>,
      NoConversationCmd        |-> <<"-", "n", "o", "-", "c", "n", "v">>,
      NoConversationCmdEnabled |-> <<"t", "r", "u", "e">>,
      NoContextShiftCmd        |-> <<"-", "-", "n", "c", "s">>,
      NoContextShiftCmdEnabled |-> <<"t", "r", "u", "e">>,
      RandomSeedCmd            |-> <<"-", "s">>,
      RandomSeedCmdVal         |-> <<"1", "1", "2">>,
      YarnOrigContextCmd       |-> <<"-", "-", "y", "o", "c">>,
      YarnOrigContextCmdVal    |-> <<"4", "0", "9", "6">>,
      BatchCmd                 |-> <<"-", "b">>,
      BatchCmdVal              |-> <<"2", "0", "4", "8">>,
      UBatchCmd                |-> <<"-", "u", "b">>,
      UBatchCmdVal             |-> <<"5", "1", "2">>,
      SplitModeCmd             |-> <<"-", "s", "m">>,
      SplitModeCmdVal          |-> <<"r", "o", "w">> ]

\* the variables that hold an enabled bit
BoolKeys ==
    { "PromptCmdEnabled", "MultilineInputCmdEnabled", "MemLockCmdEnabled",
      "EscapeNewLinesCmdEnabled", "LogVerboseEnabled",
      "NoDisplayPromptEnabled", "FlashAttentionCmdEnabled",
      "NoConversationCmdEnabled", "NoContextShiftCmdEnabled" }

\* the variables that hold a flag token
TokenKeys ==
    { "ModelCmd", "PromptCmd", "ChatTemplateCmd", "MultilineInputCmd",
      "CtxSizeCmd", "RopeScalingCmd", "RopeScaleCmd", "PromptCacheAllCmd",
      "PromptCacheCmd", "PromptFileCmd", "ReversePromptCmd", "InPrefixCmd",
      "InSuffixCmd", "GPULayersCmd", "ThreadsBatchCmd", "ThreadsCmd",
      "KeepCmd", "TopKCmd", "MainGPUCmd", "RepeatPenaltyCmd",
      "RepeatLastPenaltyCmd", "MemLockCmd", "EscapeNewLinesCmd",
      "LogVerboseCmd", "TemperatureCmd", "PredictCmd", "NoDisplayPromptCmd",
      "TopPCmd", "MinPCmd", "ModelLogFileCmd", "FlashAttentionCmd",
      "NoConversationCmd", "NoContextShiftCmd", "RandomSeedCmd",
      "YarnOrigContextCmd", "BatchCmd", "UBatchCmd", "SplitModeCmd" }

\* the variables that hold the default of an integer option and of a
\* floating-point option of prepareLlamaArgs
IntKeys ==
    { "ThreadsVal", "GPULayersVal", "CtxSizeVal", "BatchCmdVal", "PredictVal",
      "TopKVal" }
FloatKeys == { "TemperatureVal", "TopPVal", "RepeatPenaltyVal" }

\* an environment that sets the flag tokens and nothing else
BareLlamaEnv ==
    [ k \in DOMAIN FullLlamaEnv |->
        IF k \in TokenKeys THEN FullLlamaEnv[k] ELSE <<>> ]

\* values a variable is given in place of the one above; <<>> is unset
AltToken == <<"-", "-", "a", "l", "t">>
AltValue == <<"/", "a", "l", "t">>
BoolStrings ==
    { <<>>, <<"t", "r", "u", "e">>, <<"1">>, <<"T">>, <<"f", "a", "l", "s", "e">>,
      <<"0">>, <<"y", "e", "s">> }
IntStrings ==
    { <<>>, <<"0">>, <<"-", "1">>, <<"+", "8">>, <<"0", "7">>, <<"1", "6">>,
      <<"1", ".", "5">>, <<"x">>,
      \* 2^63 - 1, the largest int64, and 2^63
      <<"9", "2", "2", "3", "3", "7", "2", "0", "3", "6", "8", "5", "4", "7",
        "7", "5", "8", "0", "7">>,
      <<"9", "2", "2", "3", "3", "7", "2", "0", "3", "6", "8", "5", "4", "7",
        "7", "5", "8", "0", "8">> }
FloatStrings ==
    { <<>>, <<"0">>, <<"0", ".", "0">>, <<"-", "1">>, <<".", "5">>, <<"1", ".">>,
      <<"1">>, <<"0", ".", "7", "5", "0">>, <<"2", "e", "-", "1">>, <<"1", "e">>,
      <<".">>, <<"x">>, <<"i", "n", "f">>, <<"n", "a", "n">>,
      <<"1", "e", "4", "0", "0">>, <<"1", "e", "-", "4", "0", "0">>,
      <<"0", "x", "1", "p", "-", "2">>, <<"1", "_", "0">> }

LlamaEnvChoices(k) ==
    IF k \in TokenKeys THEN { AltToken, <<>> }
    ELSE IF k \in BoolKeys THEN BoolStrings
    ELSE IF k \in IntKeys THEN IntStrings
    ELSE IF k \in FloatKeys THEN FloatStrings
    ELSE { AltValue, <<>> }

\* the environment b, with at most one variable given another value
LlamaEnvsOf(b) ==
    { b } \cup
    UNION { { [b EXCEPT ![k] = v] : v \in LlamaEnvChoices(k) } : k \in DOMAIN b }

\* the environments prepareLlamaArgs is examined under: one of the two
\* above, with at most one variable given another value
FullLlamaEnvs == LlamaEnvsOf(FullLlamaEnv)
LlamaEnvs == FullLlamaEnvs \cup LlamaEnvsOf(BareLlamaEnv)

\* the environments the server is started under
ServerLlamaEnvs == { FullLlamaEnv, BareLlamaEnv }

\* strconv.ParseBool
ParseBool(s) ==
    IF s \in { <<"1">>, <<"t">>, <<"T">>, <<"T", "R", "U", "E">>,
               <<"t", "r", "u", "e">>, <<"T", "r", "u", "e">> }
    THEN [ ok |-> TRUE, val |-> TRUE ]
    ELSE IF s \in { <<"0">>, <<"f">>, <<"F">>, <<"F", "A", "L", "S", "E">>,
                    <<"f", "a", "l", "s", "e">>, <<"F", "a", "l", "s", "e">> }
    THEN [ ok |-> TRUE, val |-> FALSE ]
    ELSE [ ok |-> FALSE, val |-> FALSE ]

\* getEnvBool(val, fallback), val the value of the variable
getEnvBool(val, fallback) ==
    IF val = <<>> THEN fallback
    ELSE IF ParseBool(val).ok THEN ParseBool(val).val
    ELSE fallback

ParseDefaultLlamaCliEnv(e) ==
    [ ModelCmd                 |-> e.ModelCmd,
      ModelFullPathVal         |-> e.ModelFullPathVal,
      PromptCmd                |-> e.PromptCmd,
      PromptCmdEnabled         |-> getEnvBool(e.PromptCmdEnabled, FALSE),
      PromptText               |-> e.PromptText,
      ChatTemplateCmd          |-> e.ChatTemplateCmd,
      ChatTemplateVal          |-> e.ChatTemplateVal,
      MultilineInputCmd        |-> e.MultilineInputCmd,
      MultilineInputCmdEnabled |-> getEnvBool(e.MultilineInputCmdEnabled, FALSE),
      CtxSizeCmd               |-> e.CtxSizeCmd,
      CtxSizeVal               |-> e.CtxSizeVal,
      RopeScalingCmd           |-> e.RopeScalingCmd,
      RopeScalingCmdVal        |-> e.RopeScalingCmdVal,
      RopeScaleCmd             |-> e.RopeScaleCmd,
      RopeScaleVal             |-> e.RopeScaleVal,
      PromptCacheAllCmd        |-> e.PromptCacheAllCmd,
      PromptCacheCmd           |-> e.PromptCacheCmd,
      PromptCacheVal           |-> e.PromptCacheVal,
      PromptFileCmd            |-> e.PromptFileCmd,
      PromptFileVal            |-> e.PromptFileVal,
      ReversePromptCmd         |-> e.ReversePromptCmd,
      ReversePromptVal         |-> e.ReversePromptVal,
      InPrefixCmd              |-> e.InPrefixCmd,
      InPrefixVal              |-> e.InPrefixVal,
      InSuffixCmd              |-> e.InSuffixCmd,
      InSuffixVal              |-> e.InSuffixVal,
      GPULayersCmd             |-> e.GPULayersCmd,
      GPULayersVal             |-> e.GPULayersVal,
      ThreadsBatchCmd          |-> e.ThreadsBatchCmd,
      ThreadsBatchVal          |-> e.ThreadsBatchVal,
      ThreadsCmd               |-> e.ThreadsCmd,
      ThreadsVal               |-> e.ThreadsVal,
      KeepCmd                  |-> e.KeepCmd,
      KeepVal                  |-> e.KeepVal,
      TopKCmd                  |-> e.TopKCmd,
      TopKVal                  |-> e.TopKVal,
      MainGPUCmd               |-> e.MainGPUCmd,
      MainGPUVal               |-> e.MainGPUVal,
      RepeatPenaltyCmd         |-> e.RepeatPenaltyCmd,
      RepeatPenaltyVal         |-> e.RepeatPenaltyVal,
      RepeatLastPenaltyCmd     |-> e.RepeatLastPenaltyCmd,
      RepeatLastPenaltyVal     |-> e.RepeatLastPenaltyVal,
      MemLockCmd               |-> e.MemLockCmd,
      MemLockCmdEnabled        |-> getEnvBool(e.MemLockCmdEnabled, FALSE),
      EscapeNewLinesCmd        |-> e.EscapeNewLinesCmd,
      EscapeNewLinesCmdEnabled |-> getEnvBool(e.EscapeNewLinesCmdEnabled, FALSE),
      LogVerboseCmd            |-> e.LogVerboseCmd,
      LogVerboseEnabled        |-> getEnvBool(e.LogVerboseEnabled, FALSE),
      TemperatureVal           |-> e.TemperatureVal,
      TemperatureCmd           |-> e.TemperatureCmd,
      PredictCmd               |-> e.PredictCmd,
      PredictVal               |-> e.PredictVal,
      NoDisplayPromptCmd       |-> e.NoDisplayPromptCmd,
      NoDisplayPromptEnabled   |-> getEnvBool(e.NoDisplayPromptEnabled, FALSE),
      TopPCmd                  |-> e.TopPCmd,
      TopPVal                  |-> e.TopPVal,
      MinPCmd                  |-> e.MinPCmd,
      MinPVal                  |-> e.MinPVal,
      ModelLogFileCmd          |-> e.ModelLogFileCmd,
      ModelLogFileNameVal      |-> e.ModelLogFileNameVal,
      FlashAttentionCmd        |-> e.FlashAttentionCmd,
      FlashAttentionCmdEnabled |-> getEnvBool(e.FlashAttentionCmdEnabled, FALSE),
      NoConversationCmd        |-> e.NoConversationCmd,
      NoConversationCmdEnabled |-> getEnvBool(e.NoConversationCmdEnabled, FALSE),
      NoContextShiftCmd        |-> e.NoContextShiftCmd,
      NoContextShiftCmdEnabled |-> getEnvBool(e.NoContextShiftCmdEnabled, FALSE),
      RandomSeedCmd            |-> e.RandomSeedCmd,
      RandomSeedCmdVal         |-> e.RandomSeedCmdVal,
      YarnOrigContextCmd       |-> e.YarnOrigContextCmd,
      YarnOrigContextCmdVal    |-> e.YarnOrigContextCmdVal,
      BatchCmd                 |-> e.BatchCmd,
      BatchCmdVal              |-> e.BatchCmdVal,
      UBatchCmd                |-> e.UBatchCmd,
      UBatchCmdVal             |-> e.UBatchCmdVal,
      SplitModeCmd             |-> e.SplitModeCmd,
      SplitModeCmdVal          |-> e.SplitModeCmdVal ]

\* the zero value of LlamaCliArgs
ZeroLlamaCliArgs ==
    [ k \in DOMAIN FullLlamaEnv |-> IF k \in BoolKeys THEN FALSE ELSE <<>> ]

----------------------------------------------------------------------------
(* Contexts: context.Background, context.WithTimeout, context.WithCancel *)

\* Err() of a context that does not exist yet
NoCtx == "no context"

\* context.Background(): never done
Background ==
    [ err |-> NoErr, hasDeadline |-> FALSE, timeout |-> 0, cancellable |-> FALSE ]

\* context.WithTimeout(context.Background(), d): a deadline that has
\* already passed (d <= 0) gives a context that is done from the start
WithTimeout(d) ==
    [ err         |-> IF Positive(d) THEN NoErr ELSE ErrDeadlineExceeded,
      hasDeadline |-> TRUE,
      timeout     |-> d,
      cancellable |-> FALSE ]

\* context.WithCancel(parent): Err() of the child when it is created
WithCancel(parent) == parent.err

\* cancel() on a context whose Err() is e: the first cause stays
Cancel(e) == IF e = NoErr THEN ErrCanceled ELSE e

----------------------------------------------------------------------------
(* The child process: os/exec *)

\* the i-th byte a child writes to its standard output
Alphabet == << "a", "b", "c", "d" >>
Byte(i) == Alphabet[((i - 1) % Len(Alphabet)) + 1]

\* what a child does when nobody kills it: it writes out bytes, then it
\* exits with status exit, or (hangs) it never exits
Scripts ==
    { s \in [ out : 0..MaxOutput, exit : {0, 1}, hangs : BOOLEAN ] :
        s.hangs => s.exit = 0 }

NoProc == [ state |-> "none", written |-> <<>> ]

\* filepath.Base(name) == name: exec.Command resolves such a name with LookPath
IsBareName(path) == Len(path) = 1

\* the bare names LookPath finds in the directories of PATH
OnPath == {}

\* what stops exec.Cmd.Start from starting path, and whether Start finds it
\* before ("early") or after ("start") looking at the context:
\* Cmd.Err (set by exec.Command from LookPath, or "no command") is returned
\* first, an error of os.StartProcess last
Launch(path) ==
    IF path = <<>> THEN [ phase |-> "early", err |-> ErrNoCommand ]
    ELSE IF IsBareName(path) /\ path \notin OnPath
         THEN [ phase |-> "early", err |-> ErrNotFound ]
    ELSE IF ~IsBareName(path) /\ path # InstalledCli
         THEN [ phase |-> "start", err |-> ErrForkExec ]
    ELSE [ phase |-> "ok", err |-> NoErr ]

\* exec.CommandContext(ctx, path, args...).Start() up to its look at the
\* context: the error it returns there, NoErr when it goes on to
\* os.StartProcess
CmdStart(path, ctxErr) ==
    IF Launch(path).phase = "early" THEN Launch(path).err
    ELSE IF ctxErr # NoErr THEN ctxErr
    ELSE NoErr

\* os.StartProcess in Start: the error it returns, NoErr when the process
\* has been started.  The context is not looked at again.
StartProcess(path) ==
    IF Launch(path).phase = "start" THEN Launch(path).err ELSE NoErr

\* the errors exec.Cmd.Wait can return for a process in state p whose
\* context has Err() ctxErr.  A process that ended 0 while the context was
\* done is reported with the context's error when the kill reached it
\* before it was reaped, and with no error otherwise.
CmdWaitErrs(p, exit, ctxErr) ==
    IF p.state = "killed" THEN { ErrKilled }
    ELSE IF exit # 0 THEN { ErrExitStatus }
    ELSE IF ctxErr # NoErr THEN { NoErr, ctxErr }
    ELSE { NoErr }

----------------------------------------------------------------------------
(* GenerateSingleCompletionWithCancel: model.go *)

NoResult  == [ output |-> <<>>, err |-> NoErr ]
NewChan   == [ delivered |-> 0, closed |-> FALSE ]
NoneSeen  == [ result |-> FALSE, done |-> FALSE ]
NoHist    == [ atCall |-> NoErr, first |-> "none", doneAt |-> "never" ]

\* the caller is inside GenerateSingleCompletionWithCancel
InCall == epc \in {"select", "parked", "wokenResult", "wokenDone"}

\* faulty variant of ReturnOfResult: the error of the process is dropped
ReturnOfResult_DropErr(r) == [ output |-> r.output, err |-> NoErr ]

\* model.go:50: what the caller returns when the result case is taken
ReturnOfResult(r) == [ output |-> r.output, err |-> r.err ]

\* model.go:53: what the caller returns when the done case is taken
ReturnOfDone(ctxErr) == [ output |-> <<>>, err |-> ctxErr ]

\* model.go:20-44: the function is entered; the child context, the channel,
\* the go statement
ExecEnter ==
    /\ epc = "call"
    /\ ctx' = WithCancel(pctx)
    /\ chan' = NewChan
    /\ gpc' = "start"
    /\ epc' = "select"
    /\ hist' = IF WithCancel(pctx) # NoErr
               THEN [ atCall |-> WithCancel(pctx), first |-> "done",
                      doneAt |-> "none" ]
               ELSE NoHist
    /\ events' = Append(events, "exec")
    /\ UNCHANGED << configVars, handlerVars, pctx, res, proc, script, ret,
                    seen, peer, mainVars >>

\* model.go:37: the goroutine reaches the send of r on the unbuffered
\* channel.  A caller parked in the select receives it at once; otherwise
\* the goroutine blocks in the send until somebody receives.
SendResult(r) ==
    /\ res' = r
    /\ hist' = [hist EXCEPT !.first = IF @ = "none" THEN "result" ELSE @]
    /\ IF epc = "parked"
       THEN /\ epc' = "wokenResult"
            /\ gpc' = "close"
            /\ chan' = [chan EXCEPT !.delivered = @ + 1]
       ELSE /\ gpc' = "send"
            /\ UNCHANGED << epc, chan >>

\* model.go:34, Output() up to the look of Start at the context: Cmd.Err
\* or the error of a done context is returned with no output and sent
\* (model.go:37), or Start goes on to start the process
GoStart ==
    /\ gpc = "start"
    /\ LET err == CmdStart(appArgs.LLamaCliPath, ctx)
       IN  IF err # NoErr
           THEN SendResult([ output |-> <<>>, err |-> err ])
           ELSE /\ gpc' = "fork"
                /\ UNCHANGED << res, hist, epc, chan >>
    /\ UNCHANGED << configVars, handlerVars, events, pctx, ctx, proc, script,
                    ret, seen, peer, mainVars >>

\* model.go:34, os.StartProcess in Start: the process does not start and
\* Output returns the error with no output, or the child process starts,
\* whatever has become of the context since Start looked at it
GoStartProcess ==
    /\ gpc = "fork"
    /\ LET err == StartProcess(appArgs.LLamaCliPath)
       IN  IF err # NoErr
           THEN /\ SendResult([ output |-> <<>>, err |-> err ])
                /\ UNCHANGED << proc, events >>
           ELSE /\ proc' = [ state |-> "running", written |-> <<>> ]
                /\ events' = Append(events, "spawn")
                /\ gpc' = "wait"
                /\ UNCHANGED << res, hist, epc, chan >>
    /\ UNCHANGED << configVars, handlerVars, pctx, ctx, script, ret, seen,
                    peer, mainVars >>

\* the child writes the next byte of its standard output
ChildWrite ==
    /\ proc.state = "running"
    /\ Len(proc.written) < script.out
    /\ proc' = [proc EXCEPT !.written = Append(@, Byte(Len(@) + 1))]
    /\ UNCHANGED << configVars, handlerVars, events, pctx, ctx, epc, gpc, res,
                    chan, script, ret, seen, hist, peer, mainVars >>

\* the child exits by itself
ChildExit ==
    /\ proc.state = "running"
    /\ Len(proc.written) = script.out
    /\ ~script.hangs
    /\ proc' = [proc EXCEPT !.state = "exited"]
    /\ UNCHANGED << configVars, handlerVars, events, pctx, ctx, epc, gpc, res,
                    chan, script, ret, seen, hist, peer, mainVars >>

\* faulty variant of ChildKill: the command is made without the context
\* and a done context does not reach the child
ChildKill_Detached ==
    /\ proc.state = "running"
    /\ ctx \notin {NoCtx, NoErr}
    /\ FALSE
    /\ UNCHANGED vars

\* exec.CommandContext: the context is done, the running child is killed
ChildKill ==
    /\ proc.state = "running"
    /\ ctx \notin {NoCtx, NoErr}
    /\ proc' = [proc EXCEPT !.state = "killed"]
    /\ UNCHANGED << configVars, handlerVars, events, pctx, ctx, epc, gpc, res,
                    chan, script, ret, seen, hist, peer, mainVars >>

\* model.go:34, Output() returns: the captured standard output and the
\* error of Wait
GoWait ==
    /\ gpc = "wait"
    /\ proc.state \in {"exited", "killed"}
    /\ \E err \in CmdWaitErrs(proc, script.exit, ctx) :
          SendResult([ output |-> proc.written, err |-> err ])
    /\ UNCHANGED << configVars, handlerVars, events, pctx, ctx, proc, script,
                    ret, seen, peer, mainVars >>

\* model.go:43: close(result), the goroutine ends
GoClose ==
    /\ gpc = "close"
    /\ chan' = [chan EXCEPT !.closed = TRUE]
    /\ gpc' = "done"
    /\ UNCHANGED << configVars, handlerVars, events, pctx, ctx, epc, res,
                    proc, script, ret, seen, hist, peer, mainVars >>

\* faulty variant of TakeResult: the caller takes the result and selects
\* again instead of returning
TakeResult_SelectAgain ==
    /\ ret' = ReturnOfResult(res)
    /\ seen' = [seen EXCEPT !.result = TRUE]
    /\ ctx' = ctx
    /\ epc' = "select"

\* model.go:48-50 and the deferred cancel of line 22
TakeResult ==
    /\ ret' = ReturnOfResult(res)
    /\ seen' = [seen EXCEPT !.result = TRUE]
    /\ ctx' = Cancel(ctx)
    /\ epc' = "returned"

\* model.go:51-53 and the deferred cancel of line 22
TakeDone ==
    /\ ret' = ReturnOfDone(ctx)
    /\ seen' = [seen EXCEPT !.done = TRUE]
    /\ ctx' = Cancel(ctx)
    /\ epc' = "returned"

\* model.go:47: the caller reaches the select.  A case that is ready is
\* taken, any one of them when both are; with none ready the caller parks.
Select ==
    /\ epc = "select"
    /\ \/ /\ gpc = "send"
          /\ TakeResult
          /\ gpc' = "close"
          /\ chan' = [chan EXCEPT !.delivered = @ + 1]
       \/ /\ ctx # NoErr
          /\ TakeDone
          /\ UNCHANGED << gpc, chan >>
       \/ /\ gpc # "send"
          /\ ctx = NoErr
          /\ epc' = "parked"
          /\ UNCHANGED << gpc, chan, ret, seen, ctx >>
    /\ UNCHANGED << configVars, handlerVars, events, pctx, res, proc, script,
                    hist, peer, mainVars >>

\* the parked caller has been woken by the send: model.go:48-50
WakeResult ==
    /\ epc = "wokenResult"
    /\ TakeResult
    /\ UNCHANGED << configVars, handlerVars, events, pctx, gpc, res, chan,
                    proc, script, hist, peer, mainVars >>

\* the parked caller has been woken by the done channel: model.go:51-53
WakeDone ==
    /\ epc = "wokenDone"
    /\ TakeDone
    /\ UNCHANGED << configVars, handlerVars, events, pctx, gpc, res, chan,
                    proc, script, hist, peer, mainVars >>

\* the context given to the executor becomes done with error err: the child
\* context of model.go:21 is cancelled with it, and a caller parked in the
\* select is woken by the done channel
ParentDone(err) ==
    /\ pctx.err = NoErr
    /\ pctx' = [pctx EXCEPT !.err = err]
    /\ IF ctx = NoErr
       THEN /\ ctx' = err
            /\ hist' = [hist EXCEPT !.first = IF @ = "none" THEN "done" ELSE @,
                                    !.doneAt = proc.state]
            /\ epc' = IF epc = "parked" THEN "wokenDone" ELSE epc
       ELSE UNCHANGED << ctx, hist, epc >>
    /\ UNCHANGED << configVars, handlerVars, events, gpc, res, chan, proc,
                    script, ret, seen, peer, mainVars >>

\* the deadline of the context passes
DeadlineFires ==
    /\ pctx.hasDeadline
    /\ ParentDone(ErrDeadlineExceeded)

\* the owner of the context cancels it
CallerCancels ==
    /\ pctx.cancellable
    /\ ParentDone(ErrCanceled)

----------------------------------------------------------------------------
(* handleCompletionTool and main: main.go *)

\* the zero value of CompletionArguments: a request that gives nothing
NoRequest ==
    [ Prompt        |-> <<>>,
      Model         |-> <<>>,
      Threads       |-> 0,
      GpuLayers     |-> 0,
      CtxSize       |-> 0,
      BatchSize     |-> 0,
      Predict       |-> 0,
      Temperature   |-> 0,
      TopK          |-> 0,
      TopP          |-> 0,
      RepeatPenalty |-> 0,
      PromptFile    |-> <<>>,
      LogFile       |-> <<>> ]

\* a request that gives the prompt and nothing else
PromptOnly == [ NoRequest EXCEPT !.Prompt = <<"h", "i">> ]

\* a request that gives every parameter
EveryOverride ==
    [ Prompt        |-> <<"h", "i">>,
      Model         |-> <<"/", "o", ".", "g", "g", "u", "f">>,
      Threads       |-> 4,
      GpuLayers     |-> 10,
      CtxSize       |-> 512,
      BatchSize     |-> 64,
      Predict       |-> 100,
      Temperature   |-> 800,
      TopK          |-> 40,
      TopP          |-> 900,
      RepeatPenalty |-> 1100,
      PromptFile    |-> <<"/", "p", ".", "t", "x", "t">>,
      LogFile       |-> <<"/", "o", ".", "l", "o", "g">> ]

\* the parameters of a request by type
IntParams    == { "Threads", "GpuLayers", "CtxSize", "BatchSize", "Predict", "TopK" }
FloatParams  == { "Temperature", "TopP", "RepeatPenalty" }

\* values a parameter is given in place of the one above
IntOverrides   == { 0 - 1, 0, 3, 12 }
FloatOverrides == { 0 - 500, 0, 4, 15, 125, 375, 700, 1999, 2500, 2675 }
AltPrompt      == <<"a", " ", "b">>
AltOverride    == <<"/", "o", "v", "r">>

ArgumentChoices(k) ==
    IF k \in IntParams THEN IntOverrides
    ELSE IF k \in FloatParams THEN FloatOverrides
    ELSE IF k = "Prompt" THEN { AltPrompt, <<>> }
    ELSE { AltOverride, <<>> }

\* the requests prepareLlamaArgs is examined under: one of the two above,
\* with at most one parameter given another value
Overrides ==
    { PromptOnly, EveryOverride } \cup
    UNION { UNION { { [b EXCEPT ![k] = v] : v \in ArgumentChoices(k) } :
                    k \in DOMAIN b } :
            b \in { PromptOnly, EveryOverride } }

\* the requests prepareLlamaArgs is examined with under environment e:
\* all of them where every variable is set but one at most, the two
\* requests above under the other environments
OverridesUnder(e) ==
    IF e \in FullLlamaEnvs THEN Overrides
    ELSE { PromptOnly, EveryOverride }

\* the requests the server is sent: CompletionArguments
Requests ==
    { NoRequest,
      [ NoRequest EXCEPT !.PromptFile = EveryOverride.PromptFile ],
      PromptOnly,
      [ PromptOnly EXCEPT !.PromptFile = EveryOverride.PromptFile ],
      [ PromptOnly EXCEPT !.Temperature = 2500 ],
      [ PromptOnly EXCEPT !.Temperature = 0 - 500 ],
      EveryOverride }

----------------------------------------------------------------------------
(* prepareLlamaArgs: main.go *)

\* faulty variant of StringOption: a configured default wins over the request
StringOption_DefaultFirst(cmd, val, override) ==
    IF val # <<>> THEN << cmd, val >>
    ELSE IF override # <<>> THEN << cmd, override >>
    ELSE << >>

\* main.go:960-964, 1040-1044: an option whose value is a string
StringOption(cmd, val, override) ==
    IF override # <<>> THEN << cmd, override >>
    ELSE IF val # <<>> THEN << cmd, val >>
    ELSE << >>

\* faulty variant of IntOption: the default is parsed and formatted again
IntOption_Reformat(cmd, val, override) ==
    IF override > 0 THEN << cmd, FormatInt(Int64(override)) >>
    ELSE IF Atoi(val).ok /\ Positive(Atoi(val).val)
         THEN << cmd, FormatInt(Atoi(val).val) >>
    ELSE << >>

\* main.go:967-971 and the blocks of lines 974, 981, 988, 997, 1011: an
\* option whose value is an integer
IntOption(cmd, val, override) ==
    IF override > 0 THEN << cmd, FormatInt(Int64(override)) >>
    ELSE IF Atoi(val).ok /\ Positive(Atoi(val).val) THEN << cmd, val >>
    ELSE << >>

\* faulty variant of FloatOption: a default is emitted without being parsed
FloatOption_NoParse(cmd, val, override) ==
    IF override > 0 THEN << cmd, FormatFloat2(override) >>
    ELSE IF val # <<>> THEN << cmd, val >>
    ELSE << >>

\* main.go:1004-1008 and the blocks of lines 1018, 1025: an option whose
\* value is a floating-point number
FloatOption(cmd, val, override) ==
    IF override > 0 THEN << cmd, FormatFloat2(override) >>
    ELSE LET v == ParseFloat(val)
         IN  IF v.ok /\ GreaterThanZero(v) THEN << cmd, val >> ELSE << >>

\* faulty variant of PromptOption: the configured prompt file is used when
\* the request names none
PromptOption_ConfiguredFile(cfg, a) ==
    IF a.PromptFile # <<>> THEN << cfg.PromptFileCmd, a.PromptFile >>
    ELSE IF cfg.PromptFileVal # <<>>
         THEN << cfg.PromptFileCmd, cfg.PromptFileVal >>
    ELSE IF a.Prompt # <<>> THEN << cfg.PromptCmd, a.Prompt >>
    ELSE << >>

\* faulty variant of PromptOption: the prompt is emitted beside the prompt
\* file
PromptOption_Both(cfg, a) ==
    (IF a.PromptFile # <<>> THEN << cfg.PromptFileCmd, a.PromptFile >>
     ELSE << >>)
    \o (IF a.Prompt # <<>> THEN << cfg.PromptCmd, a.Prompt >> ELSE << >>)

\* faulty variant of PromptOption: the prompt flag is a literal of the code
PromptOption_Literal(cfg, a) ==
    IF a.PromptFile # <<>> THEN << cfg.PromptFileCmd, a.PromptFile >>
    ELSE IF a.Prompt # <<>>
         THEN << <<"-", "-", "p", "r", "o", "m", "p", "t">>, a.Prompt >>
    ELSE << >>

\* main.go:1032-1037: the prompt file of the request, else its prompt
PromptOption(cfg, a) ==
    IF a.PromptFile # <<>> THEN << cfg.PromptFileCmd, a.PromptFile >>
    ELSE IF a.Prompt # <<>> THEN << cfg.PromptCmd, a.Prompt >>
    ELSE << >>

\* main.go:1047-1049 and the blocks of lines 1051, 1059, 1063, 1067, 1071
Switch(cmd, enabled) == IF enabled THEN << cmd >> ELSE << >>

\* main.go:1055-1057: an option the configuration alone gives a value to
ConfiguredOption(cmd, val) == IF val # <<>> THEN << cmd, val >> ELSE << >>

\* faulty variant of prepareLlamaArgs: a model path taken from the
\* configuration is appended last
prepareLlamaArgs_DefaultLast(cfg, a) ==
       StringOption(cfg.ModelCmd, <<>>, a.Model)
    \o IntOption(cfg.ThreadsCmd, cfg.ThreadsVal, a.Threads)
    \o IntOption(cfg.GPULayersCmd, cfg.GPULayersVal, a.GpuLayers)
    \o IntOption(cfg.CtxSizeCmd, cfg.CtxSizeVal, a.CtxSize)
    \o IntOption(cfg.BatchCmd, cfg.BatchCmdVal, a.BatchSize)
    \o IntOption(cfg.PredictCmd, cfg.PredictVal, a.Predict)
    \o FloatOption(cfg.TemperatureCmd, cfg.TemperatureVal, a.Temperature)
    \o IntOption(cfg.TopKCmd, cfg.TopKVal, a.TopK)
    \o FloatOption(cfg.TopPCmd, cfg.TopPVal, a.TopP)
    \o FloatOption(cfg.RepeatPenaltyCmd, cfg.RepeatPenaltyVal,
                   a.RepeatPenalty)
    \o PromptOption(cfg, a)
    \o StringOption(cfg.ModelLogFileCmd, cfg.ModelLogFileNameVal,
                    a.LogFile)
    \o Switch(cfg.MultilineInputCmd, cfg.MultilineInputCmdEnabled)
    \o Switch(cfg.FlashAttentionCmd, cfg.FlashAttentionCmdEnabled)
    \o ConfiguredOption(cfg.PromptCacheCmd, cfg.PromptCacheVal)
    \o Switch(cfg.NoDisplayPromptCmd, cfg.NoDisplayPromptEnabled)
    \o Switch(cfg.EscapeNewLinesCmd, cfg.EscapeNewLinesCmdEnabled)
    \o Switch(cfg.NoConversationCmd, cfg.NoConversationCmdEnabled)
    \o Switch(cfg.NoContextShiftCmd, cfg.NoContextShiftCmdEnabled)
    \o (IF a.Model = <<>>
        THEN StringOption(cfg.ModelCmd, cfg.ModelFullPathVal, <<>>)
        ELSE << >>)

\* faulty variant of prepareLlamaArgs: the configured seed is appended
prepareLlamaArgs_WithSeed(cfg, a) ==
       StringOption(cfg.ModelCmd, cfg.ModelFullPathVal, a.Model)
    \o IntOption(cfg.ThreadsCmd, cfg.ThreadsVal, a.Threads)
    \o IntOption(cfg.GPULayersCmd, cfg.GPULayersVal, a.GpuLayers)
    \o IntOption(cfg.CtxSizeCmd, cfg.CtxSizeVal, a.CtxSize)
    \o IntOption(cfg.BatchCmd, cfg.BatchCmdVal, a.BatchSize)
    \o IntOption(cfg.PredictCmd, cfg.PredictVal, a.Predict)
    \o FloatOption(cfg.TemperatureCmd, cfg.TemperatureVal, a.Temperature)
    \o IntOption(cfg.TopKCmd, cfg.TopKVal, a.TopK)
    \o FloatOption(cfg.TopPCmd, cfg.TopPVal, a.TopP)
    \o FloatOption(cfg.RepeatPenaltyCmd, cfg.RepeatPenaltyVal,
                   a.RepeatPenalty)
    \o PromptOption(cfg, a)
    \o StringOption(cfg.ModelLogFileCmd, cfg.ModelLogFileNameVal,
                    a.LogFile)
    \o Switch(cfg.MultilineInputCmd, cfg.MultilineInputCmdEnabled)
    \o Switch(cfg.FlashAttentionCmd, cfg.FlashAttentionCmdEnabled)
    \o ConfiguredOption(cfg.PromptCacheCmd, cfg.PromptCacheVal)
    \o Switch(cfg.NoDisplayPromptCmd, cfg.NoDisplayPromptEnabled)
    \o Switch(cfg.EscapeNewLinesCmd, cfg.EscapeNewLinesCmdEnabled)
    \o Switch(cfg.NoConversationCmd, cfg.NoConversationCmdEnabled)
    \o Switch(cfg.NoContextShiftCmd, cfg.NoContextShiftCmdEnabled)
    \o ConfiguredOption(cfg.RandomSeedCmd, cfg.RandomSeedCmdVal)

\* main.go:954-1076: prepareLlamaArgs(arguments), cfg the global llamaCliArgs
prepareLlamaArgs(cfg, a) ==
       StringOption(cfg.ModelCmd, cfg.ModelFullPathVal, a.Model)
    \o IntOption(cfg.ThreadsCmd, cfg.ThreadsVal, a.Threads)
    \o IntOption(cfg.GPULayersCmd, cfg.GPULayersVal, a.GpuLayers)
    \o IntOption(cfg.CtxSizeCmd, cfg.CtxSizeVal, a.CtxSize)
    \o IntOption(cfg.BatchCmd, cfg.BatchCmdVal, a.BatchSize)
    \o IntOption(cfg.PredictCmd, cfg.PredictVal, a.Predict)
    \o FloatOption(cfg.TemperatureCmd, cfg.TemperatureVal, a.Temperature)
    \o IntOption(cfg.TopKCmd, cfg.TopKVal, a.TopK)
    \o FloatOption(cfg.TopPCmd, cfg.TopPVal, a.TopP)
    \o FloatOption(cfg.RepeatPenaltyCmd, cfg.RepeatPenaltyVal,
                   a.RepeatPenalty)
    \o PromptOption(cfg, a)
    \o StringOption(cfg.ModelLogFileCmd, cfg.ModelLogFileNameVal,
                    a.LogFile)
    \o Switch(cfg.MultilineInputCmd, cfg.MultilineInputCmdEnabled)
    \o Switch(cfg.FlashAttentionCmd, cfg.FlashAttentionCmdEnabled)
    \o ConfiguredOption(cfg.PromptCacheCmd, cfg.PromptCacheVal)
    \o Switch(cfg.NoDisplayPromptCmd, cfg.NoDisplayPromptEnabled)
    \o Switch(cfg.EscapeNewLinesCmd, cfg.EscapeNewLinesCmdEnabled)
    \o Switch(cfg.NoConversationCmd, cfg.NoConversationCmdEnabled)
    \o Switch(cfg.NoContextShiftCmd, cfg.NoContextShiftCmdEnabled)

----------------------------------------------------------------------------
(* handleCompletionTool and main: main.go, continued *)

\* tool response content: one text, kept as prefix, value, suffix
Text(prefix, value, suffix) ==
    [ prefix |-> prefix, value |-> value, suffix |-> suffix ]

NoResponse == Text("", <<>>, "")

\* main.go:889
PromptEmptyMsg == Text("Error: Prompt cannot be empty", <<>>, "")

\* main.go:920: fmt.Sprintf("Error: Completion timed out after %d seconds", n)
TimeoutMsg(n) == Text("Error: Completion timed out after ", FormatInt(n), " seconds")

\* main.go:929: fmt.Sprintf("Error generating completion: %v", err)
ErrorMsg(err) == Text("Error generating completion: ", << err >>, "")

\* main.go:939: string(output)
OutputMsg(output) == Text("", output, "")

\* main.go:900: the handler's fallback timeout
FallbackTimeoutSeconds == 300

\* main.go:898-901
EffectiveTimeout(configured) ==
    IF Positive(configured) THEN configured ELSE Int64(FallbackTimeoutSeconds)

\* main.go:916: the test that makes a failure a timeout
IsTimeout(err, ctxErr) == IsDeadlineExceeded(err) \/ IsDeadlineExceeded(ctxErr)

\* main.go:914-941: the response for what the executor returned
Classify(r, ctxErr, n) ==
    IF r.err # NoErr
    THEN IF IsTimeout(r.err, ctxErr) THEN TimeoutMsg(n) ELSE ErrorMsg(r.err)
    ELSE OutputMsg(r.output)

\* main.go:767-769: main parses the configuration before the server starts
Startup ==
    /\ ~started
    /\ llamaCliArgs' = ParseDefaultLlamaCliEnv(llamaEnv)
    /\ appArgs' = ParseDefaultAppEnv(env)
    /\ started' = TRUE
    /\ UNCHANGED << env, llamaEnv, handlerVars, events, pctx, ctx, epc, gpc,
                    res, chan, proc, script, ret, seen, hist, peer,
                    mainVars >>

\* the number of times x occurs in the sequence s
Count(s, x) == Cardinality({ i \in 1..Len(s) : s[i] = x })

\* faulty variant of PromptIsEmpty: no request is rejected
PromptIsEmpty_Never(a) == FALSE

\* main.go:885: the test that rejects a request
PromptIsEmpty(a) == a.Prompt = <<>>

\* main.go:871-913: a request arrives; an empty prompt is answered at once,
\* otherwise the timeout context is made, the argument vector is built and
\* the executor is about to be called.  The argument vector does not steer
\* the model of the child: whatever the arguments, the child does one of
\* Scripts.
HandleRequest ==
    /\ started
    /\ hpc = "idle"
    /\ \E a \in Requests :
        /\ arguments' = a
        /\ IF PromptIsEmpty(a)
           THEN /\ response' = PromptEmptyMsg
                /\ handlerErr' = NoErr
                /\ hpc' = "done"
                /\ UNCHANGED << timeoutSeconds, args, events, pctx, epc >>
           ELSE /\ timeoutSeconds' = EffectiveTimeout(appArgs.TimeOutSeconds)
                /\ pctx' = WithTimeout(
                               Seconds(EffectiveTimeout(appArgs.TimeOutSeconds)))
                /\ args' = prepareLlamaArgs(llamaCliArgs, a)
                /\ events' = Append(events, "args")
                /\ hpc' = "exec"
                /\ epc' = "call"
                /\ UNCHANGED << response, handlerErr >>
    /\ UNCHANGED << configVars, ctx, gpc, res, chan, proc, script, ret, seen,
                    hist, peer, mainVars >>

\* faulty variant of HandleResult: a failed run is tried once more
HandleResult_Retry ==
    /\ hpc = "exec"
    /\ epc = "returned"
    /\ IF ret.err # NoErr /\ Count(events, "exec") < 2
       THEN /\ epc' = "call"
            /\ UNCHANGED << response, handlerErr, pctx, hpc >>
       ELSE /\ response' = Classify(ret, pctx.err, timeoutSeconds)
            /\ handlerErr' = NoErr
            /\ pctx' = [pctx EXCEPT !.err = Cancel(@)]
            /\ hpc' = "done"
            /\ epc' = epc
    /\ UNCHANGED << configVars, arguments, timeoutSeconds, args, events, ctx,
                    gpc, res, chan, proc, script, ret, seen, hist, peer,
                    mainVars >>

\* main.go:913-942: the executor has returned; the response is made, the
\* handler returns and its deferred cancel (main.go:905) runs
HandleResult ==
    /\ hpc = "exec"
    /\ epc = "returned"
    /\ response' = Classify(ret, pctx.err, timeoutSeconds)
    /\ handlerErr' = NoErr
    /\ pctx' = [pctx EXCEPT !.err = Cancel(@)]
    /\ hpc' = "done"
    /\ UNCHANGED << configVars, arguments, timeoutSeconds, args, events, ctx,
                    epc, gpc, res, chan, proc, script, ret, seen, hist, peer,
                    mainVars >>

----------------------------------------------------------------------------
(* A second request: main.go, handleCompletionTool called concurrently *)

\* The server runs handleCompletionTool once for each request, so two
\* requests can be in the handler together.  The second call is followed
\* through the globals it reads and the locals it derives from them; its
\* child process and its result are those of the executor above and are
\* not followed a second time.
NoPeer ==
    [ pc |-> "idle", arguments |-> NoRequest, timeoutSeconds |-> Int64(0),
      args |-> <<>> ]

\* the requests of the second call
PeerRequests == { NoRequest, PromptOnly, EveryOverride }

\* faulty variant of PeerRequest: the model path of a request is stored in
\* the global configuration
PeerRequest_StoresOverride ==
    /\ started
    /\ peer.pc = "idle"
    /\ \E a \in PeerRequests :
        /\ peer' =
              IF PromptIsEmpty(a)
              THEN [ NoPeer EXCEPT !.pc = "done", !.arguments = a ]
              ELSE [ pc |-> "exec",
                     arguments |-> a,
                     timeoutSeconds |->
                         EffectiveTimeout(appArgs.TimeOutSeconds),
                     args |-> prepareLlamaArgs(llamaCliArgs, a) ]
        /\ llamaCliArgs' =
              IF a.Model # <<>>
              THEN [ llamaCliArgs EXCEPT !.ModelFullPathVal = a.Model ]
              ELSE llamaCliArgs
    /\ UNCHANGED << env, llamaEnv, appArgs, started, handlerVars, events,
                    execVars, mainVars >>

\* main.go:871-913 in the second call: the globals appArgs and llamaCliArgs
\* are read, nothing global is written
PeerRequest ==
    /\ started
    /\ peer.pc = "idle"
    /\ \E a \in PeerRequests :
        peer' =
            IF PromptIsEmpty(a)
            THEN [ NoPeer EXCEPT !.pc = "done", !.arguments = a ]
            ELSE [ pc |-> "exec",
                   arguments |-> a,
                   timeoutSeconds |->
                       EffectiveTimeout(appArgs.TimeOutSeconds),
                   args |-> prepareLlamaArgs(llamaCliArgs, a) ]
    /\ UNCHANGED << configVars, handlerVars, events, execVars, mainVars >>

\* main.go:913-942 in the second call: its executor has returned and the
\* response is made from the locals of the call
PeerResult ==
    /\ peer.pc = "exec"
    /\ peer' = [ peer EXCEPT !.pc = "done" ]
    /\ UNCHANGED << configVars, handlerVars, events, execVars, mainVars >>

----------------------------------------------------------------------------
(* main and runServer: main.go *)

\* main.go:783, 787 and 842: make(chan ..., 1)
ChanCap == 1

\* main.go:658: ShutdownTimeout = 30 * time.Second
ShutdownTimeout == Seconds(Int64(30))

\* what server.RegisterTool and server.Serve of the MCP library return:
\* nil or an error
ErrRegister == "failed to register completion tool"
ErrListen == "listen tcp: address already in use"
ErrServerClosed == "http: Server closed"
ServeErrs == { NoErr, ErrListen, ErrServerClosed }

\* the goroutine of server.Serve before it is started
NoServe == [ pc |-> "none", err |-> NoErr ]

\* main has not reached main.go:779
MainNotStarted ==
    /\ mpc = "start"
    /\ quit = 0
    /\ serverErr = <<>>
    /\ sctx = NoCtx
    /\ shutdownCtx = NoCtx
    /\ rpc = "none"
    /\ rret = NoErr
    /\ errChan = <<>>
    /\ spc = NoServe
    /\ mlog = <<>>

\* what a step of main, of runServer or of the goroutines they start
\* leaves alone: the globals, the requests and their executor
RequestsUnchanged ==
    UNCHANGED << configVars, handlerVars, events, execVars, peer >>

\* the process runs until main returns
Running == mpc # "done"

\* main.go:779-790: the server context, the two channels, and the goroutine
\* that runs runServer
MainStart ==
    /\ mpc = "start"
    /\ started
    /\ sctx' = WithCancel(Background)
    /\ rpc' = "register"
    /\ mpc' = "select1"
    /\ UNCHANGED << quit, serverErr, shutdownCtx, rret, errChan, spc, mlog >>
    /\ RequestsUnchanged

\* main.go:783-784: SIGINT or SIGTERM arrives; signal.Notify puts it in quit
\* when there is room and drops it otherwise
Signal ==
    /\ Running
    /\ mpc # "start"
    /\ quit < ChanCap
    /\ quit' = quit + 1
    /\ UNCHANGED << mpc, serverErr, sctx, shutdownCtx, rpc, rret, errChan,
                    spc, mlog >>
    /\ RequestsUnchanged

\* main.go:829-838: runServer registers the tool; a failure is returned
RegisterTool ==
    /\ Running
    /\ rpc = "register"
    /\ \/ /\ rpc' = "serve"
          /\ rret' = rret
       \/ /\ rpc' = "send"
          /\ rret' = ErrRegister
    /\ UNCHANGED << mpc, quit, serverErr, sctx, shutdownCtx, errChan, spc,
                    mlog >>
    /\ RequestsUnchanged

\* main.go:842-845: errChan is made and the goroutine that runs
\* server.Serve is started
StartServe ==
    /\ Running
    /\ rpc = "serve"
    /\ errChan' = <<>>
    /\ spc' = [ pc |-> "serving", err |-> NoErr ]
    /\ rpc' = "select"
    /\ UNCHANGED << mpc, quit, serverErr, sctx, shutdownCtx, rret, mlog >>
    /\ RequestsUnchanged

\* main.go:844: server.Serve returns, with nil or an error
ServeReturns ==
    /\ Running
    /\ spc.pc = "serving"
    /\ \E e \in ServeErrs : spc' = [ pc |-> "send", err |-> e ]
    /\ UNCHANGED << mpc, quit, serverErr, sctx, shutdownCtx, rpc, rret,
                    errChan, mlog >>
    /\ RequestsUnchanged

\* main.go:844: errChan <- the value server.Serve returned; the send waits
\* for room in the channel
ErrChanSend ==
    /\ Running
    /\ spc.pc = "send"
    /\ Len(errChan) < ChanCap
    /\ errChan' = Append(errChan, spc.err)
    /\ spc' = [ spc EXCEPT !.pc = "done" ]
    /\ UNCHANGED << mpc, quit, serverErr, sctx, shutdownCtx, rpc, rret, mlog >>
    /\ RequestsUnchanged

\* main.go:848-859: the select of runServer; on a done context the transport
\* is closed and ctx.Err() is returned, on a value of errChan the value is
\* returned
RunServerSelect ==
    /\ Running
    /\ rpc = "select"
    /\ \/ /\ sctx # NoErr
          /\ rret' = sctx
          /\ errChan' = errChan
       \/ /\ errChan # <<>>
          /\ rret' = Head(errChan)
          /\ errChan' = Tail(errChan)
    /\ rpc' = "send"
    /\ UNCHANGED << mpc, quit, serverErr, sctx, shutdownCtx, spc, mlog >>
    /\ RequestsUnchanged

\* main.go:789: serverErr <- the value runServer returned; the send waits
\* for room in the channel
ServerErrSend ==
    /\ Running
    /\ rpc = "send"
    /\ Len(serverErr) < ChanCap
    /\ serverErr' = Append(serverErr, rret)
    /\ rpc' = "done"
    /\ mlog' = Append(mlog, "send serverErr")
    /\ UNCHANGED << mpc, quit, sctx, shutdownCtx, rret, errChan, spc >>
    /\ RequestsUnchanged

\* main.go:793-800: the first select of main
MainSelect1 ==
    /\ mpc = "select1"
    /\ \/ /\ quit > 0
          /\ quit' = quit - 1
          /\ serverErr' = serverErr
          /\ mlog' = Append(mlog, "quit")
       \/ /\ serverErr # <<>>
          /\ serverErr' = Tail(serverErr)
          /\ quit' = quit
          /\ mlog' = Append(mlog, "receive serverErr")
    /\ mpc' = "cancel"
    /\ UNCHANGED << sctx, shutdownCtx, rpc, rret, errChan, spc >>
    /\ RequestsUnchanged

\* main.go:803-807: cancel() of the server context, then shutdownCtx with
\* its timer
MainCancel ==
    /\ mpc = "cancel"
    /\ sctx' = Cancel(sctx)
    /\ shutdownCtx' = WithTimeout(ShutdownTimeout).err
    /\ mpc' = "select2"
    /\ UNCHANGED << quit, serverErr, rpc, rret, errChan, spc, mlog >>
    /\ RequestsUnchanged

\* the deadline of shutdownCtx passes
ShutdownTimeoutFires ==
    /\ mpc = "select2"
    /\ shutdownCtx = NoErr
    /\ shutdownCtx' = ErrDeadlineExceeded
    /\ UNCHANGED << mpc, quit, serverErr, sctx, rpc, rret, errChan, spc,
                    mlog >>
    /\ RequestsUnchanged

\* faulty variant of MainSelect2: main waits for the server alone
MainSelect2_ServerOnly ==
    /\ mpc = "select2"
    /\ serverErr # <<>>
    /\ serverErr' = Tail(serverErr)
    /\ mlog' = Append(mlog, "Server shutdown complete")
    /\ mpc' = "done"
    /\ shutdownCtx' = Cancel(shutdownCtx)
    /\ sctx' = Cancel(sctx)
    /\ UNCHANGED << quit, rpc, rret, errChan, spc >>
    /\ RequestsUnchanged

\* main.go:809-817: the second select of main, then 'Application shutdown
\* complete' and the return of main, which runs the deferred
\* shutdownCancel of line 807 and cancel of line 780 and ends the process
MainSelect2 ==
    /\ mpc = "select2"
    /\ \/ /\ shutdownCtx # NoErr
          /\ serverErr' = serverErr
          /\ mlog' = Append(mlog, "Forced shutdown after timeout")
       \/ /\ serverErr # <<>>
          /\ serverErr' = Tail(serverErr)
          /\ mlog' = Append(mlog, "Server shutdown complete")
    /\ mpc' = "done"
    /\ shutdownCtx' = Cancel(shutdownCtx)
    /\ sctx' = Cancel(sctx)
    /\ UNCHANGED << quit, rpc, rret, errChan, spc >>
    /\ RequestsUnchanged

\* a request arrives at the server that is serving
ServeRequest ==
    /\ Running
    /\ spc.pc = "serving"
    /\ HandleRequest

----------------------------------------------------------------------------
(* The specifications *)

\* the steps of one call of the executor
ExecNext ==
    \/ ExecEnter
    \/ GoStart
    \/ GoStartProcess
    \/ ChildWrite
    \/ ChildExit
    \/ ChildKill
    \/ GoWait
    \/ GoClose
    \/ Select
    \/ WakeResult
    \/ WakeDone
    \/ DeadlineFires

\* The program: main has loaded the environment, nothing is parsed yet.
Init ==
    /\ env \in [ LLamaCliPath : LLamaCliPathEnv, TimeOutSeconds : TimeOutSecondsEnv ]
    /\ llamaEnv \in ServerLlamaEnvs
    /\ appArgs = ZeroAppArgs
    /\ llamaCliArgs = ZeroLlamaCliArgs
    /\ started = FALSE
    /\ arguments = NoRequest
    /\ hpc = "idle"
    /\ timeoutSeconds = Int64(0)
    /\ response = NoResponse
    /\ handlerErr = NoErr
    /\ args = <<>>
    /\ events = <<>>
    /\ pctx = Background
    /\ ctx = NoCtx
    /\ epc = "idle"
    /\ gpc = "none"
    /\ res = NoResult
    /\ chan = NewChan
    /\ proc = NoProc
    /\ script \in Scripts
    /\ ret = NoResult
    /\ seen = NoneSeen
    /\ hist = NoHist
    /\ peer = NoPeer
    /\ MainNotStarted

Next ==
    \/ Startup
    \/ HandleRequest
    \/ HandleResult
    \/ ExecNext

Spec == Init /\ [][Next]_vars

\* The contexts a caller can give to the executor: one that is never done,
\* one with a deadline (still ahead, or already elapsed), one that its owner
\* can cancel (not cancelled yet, or already cancelled).
CallerContexts ==
    { Background,
      WithTimeout(Seconds(Int64(1))),
      WithTimeout(Seconds(Int64(0))),
      [ Background EXCEPT !.cancellable = TRUE ],
      [ Background EXCEPT !.cancellable = TRUE, !.err = ErrCanceled ] }

\* GenerateSingleCompletionWithCancel called on its own, with any context,
\* any executable path and any child.
InitExec ==
    /\ env \in [ LLamaCliPath : LLamaCliPathEnv, TimeOutSeconds : { <<>> } ]
    /\ llamaEnv = FullLlamaEnv
    /\ appArgs = ParseDefaultAppEnv(env)
    /\ llamaCliArgs = ParseDefaultLlamaCliEnv(llamaEnv)
    /\ started = TRUE
    /\ arguments = NoRequest
    /\ hpc = "direct"
    /\ timeoutSeconds = Int64(0)
    /\ response = NoResponse
    /\ handlerErr = NoErr
    /\ args = prepareLlamaArgs(llamaCliArgs, PromptOnly)
    /\ events = <<>>
    /\ pctx \in CallerContexts
    /\ ctx = NoCtx
    /\ epc = "call"
    /\ gpc = "none"
    /\ res = NoResult
    /\ chan = NewChan
    /\ proc = NoProc
    /\ script \in Scripts
    /\ ret = NoResult
    /\ seen = NoneSeen
    /\ hist = NoHist
    /\ peer = NoPeer
    /\ MainNotStarted

NextExec ==
    \/ ExecNext
    \/ CallerCancels

SpecExec == InitExec /\ [][NextExec]_vars

\* prepareLlamaArgs called on its own, with any configuration and any
\* request.
InitArgs ==
    /\ env = [ LLamaCliPath |-> InstalledCli, TimeOutSeconds |-> <<>> ]
    /\ llamaEnv \in LlamaEnvs
    /\ appArgs = ParseDefaultAppEnv(env)
    /\ llamaCliArgs = ParseDefaultLlamaCliEnv(llamaEnv)
    /\ started = TRUE
    /\ arguments \in OverridesUnder(llamaEnv)
    /\ hpc = "resolve"
    /\ timeoutSeconds = Int64(0)
    /\ response = NoResponse
    /\ handlerErr = NoErr
    /\ args = <<>>
    /\ events = <<>>
    /\ pctx = Background
    /\ ctx = NoCtx
    /\ epc = "idle"
    /\ gpc = "none"
    /\ res = NoResult
    /\ chan = NewChan
    /\ proc = NoProc
    /\ script = [ out |-> 0, exit |-> 0, hangs |-> FALSE ]
    /\ ret = NoResult
    /\ seen = NoneSeen
    /\ hist = NoHist
    /\ peer = NoPeer
    /\ MainNotStarted

\* main.go:910: args := prepareLlamaArgs(arguments)
Resolve ==
    /\ hpc = "resolve"
    /\ args' = prepareLlamaArgs(llamaCliArgs, arguments)
    /\ events' = Append(events, "args")
    /\ hpc' = "resolved"
    /\ UNCHANGED << configVars, arguments, timeoutSeconds, response,
                    handlerErr, pctx, ctx, epc, gpc, res, chan, proc, script,
                    ret, seen, hist, peer, mainVars >>

NextArgs == Resolve

SpecArgs == InitArgs /\ [][NextArgs]_vars

\* Two requests in the handler together: the program above with an
\* installed llama-cli, and a second call of handleCompletionTool that
\* arrives and returns at any moment of the first.
InitPair ==
    /\ Init
    /\ llamaEnv = FullLlamaEnv
    /\ env.LLamaCliPath = InstalledCli
    /\ env.TimeOutSeconds \in { <<>>, <<"0">>, <<"2">> }

NextPair ==
    \/ Next
    \/ PeerRequest
    \/ PeerResult

SpecPair == InitPair /\ [][NextPair]_vars

\* main from the start of the server to its return; no request arrives.
\* main has parsed the configuration; llama-cli is installed.
InitMain ==
    /\ env = [ LLamaCliPath |-> InstalledCli, TimeOutSeconds |-> <<>> ]
    /\ llamaEnv = FullLlamaEnv
    /\ appArgs = ParseDefaultAppEnv(env)
    /\ llamaCliArgs = ParseDefaultLlamaCliEnv(llamaEnv)
    /\ started = TRUE
    /\ arguments = NoRequest
    /\ hpc = "idle"
    /\ timeoutSeconds = Int64(0)
    /\ response = NoResponse
    /\ handlerErr = NoErr
    /\ args = <<>>
    /\ events = <<>>
    /\ pctx = Background
    /\ ctx = NoCtx
    /\ epc = "idle"
    /\ gpc = "none"
    /\ res = NoResult
    /\ chan = NewChan
    /\ proc = NoProc
    /\ script = [ out |-> 0, exit |-> 0, hangs |-> FALSE ]
    /\ ret = NoResult
    /\ seen = NoneSeen
    /\ hist = NoHist
    /\ peer = NoPeer
    /\ MainNotStarted

\* the steps of main, of runServer and of the goroutines they start
MainNext ==
    \/ MainStart
    \/ Signal
    \/ RegisterTool
    \/ StartServe
    \/ ServeReturns
    \/ ErrChanSend
    \/ RunServerSelect
    \/ ServerErrSend
    \/ MainSelect1
    \/ MainCancel
    \/ ShutdownTimeoutFires
    \/ MainSelect2

\* The Go scheduler runs main whenever it can take a step, and the runtime
\* timer of shutdownCtx fires.
SpecMain ==
    /\ InitMain
    /\ [][MainNext]_vars
    /\ WF_vars(MainSelect1)
    /\ WF_vars(MainCancel)
    /\ WF_vars(ShutdownTimeoutFires)
    /\ WF_vars(MainSelect2)

\* what the child does in the specification below: it writes a byte and
\* exits, or it writes nothing and never exits
ServerScripts ==
    { [ out |-> 1, exit |-> 0, hangs |-> FALSE ],
      [ out |-> 0, exit |-> 0, hangs |-> TRUE ] }

\* The same with one request: it arrives while the server is serving, and
\* the shutdown begins at any moment of it.
InitServer ==
    /\ script \in ServerScripts
    /\ env = [ LLamaCliPath |-> InstalledCli, TimeOutSeconds |-> <<>> ]
    /\ llamaEnv = FullLlamaEnv
    /\ appArgs = ParseDefaultAppEnv(env)
    /\ llamaCliArgs = ParseDefaultLlamaCliEnv(llamaEnv)
    /\ started = TRUE
    /\ arguments = NoRequest
    /\ hpc = "idle"
    /\ timeoutSeconds = Int64(0)
    /\ response = NoResponse
    /\ handlerErr = NoErr
    /\ args = <<>>
    /\ events = <<>>
    /\ pctx = Background
    /\ ctx = NoCtx
    /\ epc = "idle"
    /\ gpc = "none"
    /\ res = NoResult
    /\ chan = NewChan
    /\ proc = NoProc
    /\ ret = NoResult
    /\ seen = NoneSeen
    /\ hist = NoHist
    /\ peer = NoPeer
    /\ MainNotStarted

\* the steps of a request in the running process
RequestNext ==
    /\ Running
    /\ \/ HandleResult
       \/ ExecEnter
       \/ GoStart
       \/ GoStartProcess
       \/ ChildKill
       \/ GoWait
       \/ GoClose
       \/ Select
       \/ WakeResult
       \/ WakeDone
       \/ DeadlineFires

\* The child is a process of its own: it writes and exits whether or not
\* the server process still runs.
NextServer ==
    \/ MainNext
    \/ ServeRequest
    \/ RequestNext
    \/ ChildWrite
    \/ ChildExit

SpecServer == InitServer /\ [][NextServer]_vars

----------------------------------------------------------------------------
(* Claims about GenerateSingleCompletionWithCancel *)

\* the executable path of the call and what stops it from starting
CliPath == appArgs.LLamaCliPath

\* C1: whichever case of the select is taken, the goroutine that waits on
\* the child eventually closes the result channel and ends (the child exits
\* once it is killed); it is not left blocked after the caller has returned:
\* once the caller has returned, the goroutine has closed the channel and
\* ended, or the goroutine or the child it waits for can take its next step.
C1_GoroutineEnds ==
    epc = "returned" =>
        \/ gpc = "done" /\ chan.closed
        \/ ENABLED (GoStart \/ GoStartProcess \/ ChildWrite \/ ChildExit
                        \/ ChildKill \/ GoWait \/ GoClose)

\* C2: when the context is cancelled while the child is running, the call
\* returns the cancellation error with no output; and once the done signal
\* has fired the caller can return whatever the child does.
C2_CancelledMidRun ==
    /\ (epc = "returned" /\ pctx.err = ErrCanceled /\ hist.doneAt = "running")
           => ret = [ output |-> <<>>, err |-> ErrCanceled ]
    /\ (InCall /\ ctx # NoErr) => ENABLED (Select \/ WakeResult \/ WakeDone)

\* C3: the signal that comes first decides the result: a process result
\* that was delivered is what the call returns, and when the done signal
\* came before the process result was ready the call returns ctx.Err().
C3_FirstSignalDecides ==
    epc = "returned" =>
        /\ seen.result => ret = [ output |-> res.output, err |-> res.err ]
        /\ hist.first = "done" => ret = [ output |-> <<>>, err |-> pctx.err ]

\* C4: called with a context whose deadline has already elapsed, the call
\* returns the deadline error and no output, and no child was run.
C4_ElapsedDeadline ==
    (epc = "returned" /\ hist.atCall = ErrDeadlineExceeded) =>
        /\ ret = [ output |-> <<>>, err |-> ErrDeadlineExceeded ]
        /\ proc.state = "none"

\* C5: when the executable cannot be launched and the context is neither
\* expired nor cancelled, the call returns the launch error, not the
\* deadline error or the cancellation error, and no output.
C5_LaunchFailure ==
    (epc = "returned" /\ Launch(CliPath).phase # "ok" /\ pctx.err = NoErr) =>
        /\ ret.err = Launch(CliPath).err
        /\ ret.err \notin {NoErr, ErrDeadlineExceeded, ErrCanceled}
        /\ ret.output = <<>>

C5_Witness ==
    /\ epc = "returned"
    /\ CliPath = << "", "nowhere", "llama-cli" >>
    /\ pctx.err = NoErr
    /\ pctx.hasDeadline
    /\ ret.err = ErrForkExec

\* C6: every return has output with a nil error, or a non-nil error with no
\* output; an error never comes with captured output.
C6_OneVariant ==
    epc = "returned" => (ret.err = NoErr \/ ret.output = <<>>)

\* C7: at most one value is ever delivered on the result channel, and a
\* caller that has returned has taken exactly one of the two select cases:
\* the process result (then it was the one delivered value) or the done
\* signal (then nothing was delivered).
C7_OneSignal ==
    /\ chan.delivered <= 1
    /\ gpc \in {"close", "done"} <=> chan.delivered = 1
    /\ epc = "returned" =>
          /\ seen.result # seen.done
          /\ seen.result <=> chan.delivered = 1
    /\ epc # "returned" => (~seen.result /\ ~seen.done)

\* both signals were there, one was taken
C7_Witness ==
    /\ epc = "returned"
    /\ seen.result
    /\ ~seen.done
    /\ hist.first = "done"
    /\ pctx.err # NoErr

----------------------------------------------------------------------------
(* Claims about handleCompletionTool *)

\* the timeout in seconds a request runs under, for each configured
\* value, as a decimal numeral: the value when it is a positive int, 300
\* otherwise
ExpectedTimeout(v) ==
    CASE v = <<"+", "7">> -> <<"7">>
      [] v = <<"2">> -> <<"2">>
      [] v = <<"4", "5">> -> <<"4", "5">>
      [] v = <<"9", "2", "2", "3", "3", "7", "2", "0", "3", "7">> -> v
      [] OTHER -> <<"3", "0", "0">>

\* C8: every outcome of the executor becomes response content and the
\* handler returns a nil error: the raw output when the executor returned
\* no error, the timed-out message with the effective timeout when it
\* returned the deadline error, and the error's message when it returned
\* any other error.
C8_ResponseMapping ==
    /\ hpc = "done" => handlerErr = NoErr
    /\ (hpc = "done" /\ arguments.Prompt # <<>>) =>
        /\ ret.err = NoErr => response = Text("", ret.output, "")
        /\ ret.err = ErrDeadlineExceeded =>
              response = Text("Error: Completion timed out after ",
                              ExpectedTimeout(env.TimeOutSeconds),
                              " seconds")
        /\ ret.err \notin { NoErr, ErrDeadlineExceeded } =>
              response = Text("Error generating completion: ", << ret.err >>, "")

\* C9: the response is the timed-out message exactly when the executor
\* returned the deadline error, and a process failure that the executor
\* returned is always answered with that error's message.
C9_ClassificationAgrees ==
    (hpc = "done" /\ arguments.Prompt # <<>>) =>
        /\ response.prefix = "Error: Completion timed out after "
              <=> ret.err = ErrDeadlineExceeded
        /\ ret.err \in {ErrNotFound, ErrNoCommand, ErrForkExec, ErrExitStatus} =>
              response = Text("Error generating completion: ", << ret.err >>, "")

\* C10: the deadline given to the executor is the configured timeout in
\* whole seconds, and 300 seconds when the configured value is absent, not
\* an integer, zero or negative: the context has a deadline, and its
\* duration in nanoseconds is that number of seconds followed by nine
\* zeros.
C10_Deadline ==
    (hpc \in {"exec", "done"} /\ arguments.Prompt # <<>>) =>
        /\ pctx.hasDeadline
        /\ pctx.timeout =
              [ neg |-> FALSE,
                abs |-> ExpectedTimeout(env.TimeOutSeconds)
                            \o << "0", "0", "0", "0", "0", "0", "0", "0", "0" >> ]

----------------------------------------------------------------------------
(* Claims about the boundary of handleCompletionTool *)

\* C11: a request with an empty prompt is answered with 'Error: Prompt
\* cannot be empty' before anything else is done for it: prepareLlamaArgs
\* has not run, the executor was not entered and no process was started.
C11_EmptyPrompt ==
    /\ (hpc = "done" /\ arguments.Prompt = <<>>) =>
          /\ response = Text("Error: Prompt cannot be empty", <<>>, "")
          /\ handlerErr = NoErr
    /\ arguments.Prompt = <<>> =>
          /\ events = <<>>
          /\ args = <<>>
          /\ epc = "idle"
          /\ proc.state = "none"

C11_Witness ==
    /\ hpc = "done"
    /\ arguments.Prompt = <<>>
    /\ arguments.PromptFile = <<>>
    /\ response.prefix = "Error: Prompt cannot be empty"
    /\ llamaCliArgs.PromptCmd = <<"-", "p">>

\* the vector holds tok once, followed by val
EmitsPair(tok, val) ==
    /\ Count(args, tok) = 1
    /\ \E i \in 1..(Len(args) - 1) : args[i] = tok /\ args[i + 1] = val

\* the vector does not hold tok
Omits(tok) == Count(args, tok) = 0

\* C12: a request is rejected as invalid only if it has neither a prompt nor
\* a prompt file: a request with a prompt file and no prompt is accepted,
\* the executor is run for it, and the vector holds the prompt-file flag
\* with the path of the request.
C12_PromptFileAccepted ==
    /\ (hpc = "done" /\ response.prefix = "Error: Prompt cannot be empty") =>
          (arguments.Prompt = <<>> /\ arguments.PromptFile = <<>>)
    /\ (hpc = "done" /\ arguments.Prompt = <<>> /\ arguments.PromptFile # <<>>) =>
          /\ Count(events, "exec") = 1
          /\ EmitsPair(llamaCliArgs.PromptFileCmd, arguments.PromptFile)

\* C13: for a request that is accepted the argument vector is built before
\* the executor is entered, the executor is entered exactly once, and at
\* most one process is started: the history of a request is a prefix of
\* "args", "exec", "spawn", and after a failure, a timeout or a cancellation
\* nothing is run again.
C13_OneExecution ==
    /\ Len(events) <= 3
    /\ events = SubSeq(<< "args", "exec", "spawn" >>, 1, Len(events))
    /\ (hpc = "exec" /\ arguments.Prompt # <<>>) => Count(events, "args") = 1
    /\ (hpc = "done" /\ arguments.Prompt # <<>>) =>
          /\ args = prepareLlamaArgs(llamaCliArgs, arguments)
          /\ Count(events, "exec") = 1
          /\ Count(events, "spawn") <= 1
          /\ ~ENABLED ExecEnter

\* a request whose process failed has been answered
C13_Witness ==
    /\ hpc = "done"
    /\ ret.err = ErrExitStatus
    /\ events = << "args", "exec", "spawn" >>
    /\ response.prefix = "Error generating completion: "

\* the temperature of the request is outside 0.0 to 2.0
TemperatureOutOfRange ==
    arguments.Temperature < 0 \/ arguments.Temperature > 2000

\* C14: a request with an invalid parameter value is answered with a
\* specific error message: for a temperature outside 0.0 to 2.0 the
\* response is 'Error: Invalid temperature value. Must be between 0.0 and
\* 2.0', and no process is run with that value.
C14_TemperatureValidated ==
    (arguments.Prompt # <<>> /\ TemperatureOutOfRange) =>
        /\ Count(events, "spawn") = 0
        /\ hpc = "done" =>
              response = Text("Error: Invalid temperature value. Must be between 0.0 and 2.0",
                              <<>>, "")

----------------------------------------------------------------------------
(* Claims about prepareLlamaArgs *)

\* prepareLlamaArgs has returned
Resolved == hpc = "resolved"

\* C15: with a non-empty prompt and no prompt file in the request, the
\* vector holds exactly one prompt-related flag: the configured prompt flag
\* token, once, immediately followed by the prompt of the request as it
\* is; the prompt-file flag, the configured default prompt text and the
\* configured default prompt file are not in the vector.
C15_PromptVerbatim ==
    (Resolved /\ arguments.Prompt # <<>> /\ arguments.PromptFile = <<>>) =>
        /\ EmitsPair(llamaCliArgs.PromptCmd, arguments.Prompt)
        /\ Omits(llamaCliArgs.PromptFileCmd)
        /\ llamaCliArgs.PromptText # <<>> => Omits(llamaCliArgs.PromptText)
        /\ llamaCliArgs.PromptFileVal # <<>> => Omits(llamaCliArgs.PromptFileVal)

C15_Witness ==
    /\ Resolved
    /\ arguments.Prompt = AltPrompt
    /\ arguments.PromptFile = <<>>
    /\ llamaCliArgs.PromptFileVal = AltValue
    /\ llamaCliArgs.PromptText # <<>>
    /\ EmitsPair(<<"-", "p">>, <<"a", " ", "b">>)

\* C16: when the request names a prompt file, the vector holds the
\* prompt-file flag token, once, followed by the path of the request, and
\* does not hold the prompt flag, also when the request has a prompt; and
\* no vector holds both the prompt-file flag and the prompt flag.
C16_PromptFileWins ==
    Resolved =>
        /\ arguments.PromptFile # <<>> =>
              /\ EmitsPair(llamaCliArgs.PromptFileCmd, arguments.PromptFile)
              /\ Omits(llamaCliArgs.PromptCmd)
              /\ arguments.Prompt # <<>> => Omits(arguments.Prompt)
        /\ Omits(llamaCliArgs.PromptFileCmd) \/ Omits(llamaCliArgs.PromptCmd)

C16_Witness ==
    /\ Resolved
    /\ arguments.Prompt = <<"h", "i">>
    /\ arguments.PromptFile = AltOverride
    /\ llamaCliArgs.PromptFileVal # <<>>
    /\ EmitsPair(<<"-", "f">>, AltOverride)

\* the numeric options: the configuration fields of the flag token and of
\* the default, the parameter of the request, and the type
NumericOptions ==
    { [ cmd |-> "ThreadsCmd",       val |-> "ThreadsVal",       param |-> "Threads",       float |-> FALSE ],
      [ cmd |-> "GPULayersCmd",     val |-> "GPULayersVal",     param |-> "GpuLayers",     float |-> FALSE ],
      [ cmd |-> "CtxSizeCmd",       val |-> "CtxSizeVal",       param |-> "CtxSize",       float |-> FALSE ],
      [ cmd |-> "BatchCmd",         val |-> "BatchCmdVal",      param |-> "BatchSize",     float |-> FALSE ],
      [ cmd |-> "PredictCmd",       val |-> "PredictVal",       param |-> "Predict",       float |-> FALSE ],
      [ cmd |-> "TemperatureCmd",   val |-> "TemperatureVal",   param |-> "Temperature",   float |-> TRUE ],
      [ cmd |-> "TopKCmd",          val |-> "TopKVal",          param |-> "TopK",          float |-> FALSE ],
      [ cmd |-> "TopPCmd",          val |-> "TopPVal",          param |-> "TopP",          float |-> TRUE ],
      [ cmd |-> "RepeatPenaltyCmd", val |-> "RepeatPenaltyVal", param |-> "RepeatPenalty", float |-> TRUE ] }

\* the configured defaults of the model that are a positive integer, and
\* those that are a positive number
PositiveIntStrings ==
    { <<"8">>, <<"3", "3">>, <<"4", "0", "9", "6", "0">>, <<"2", "0", "4", "8">>,
      <<"2", "5", "6", "0">>, <<"2", "0">>, <<"+", "8">>, <<"0", "7">>,
      <<"1", "6">>,
      <<"9", "2", "2", "3", "3", "7", "2", "0", "3", "6", "8", "5", "4", "7",
        "7", "5", "8", "0", "7">> }
PositiveFloatStrings ==
    { <<"0", ".", "6">>, <<"0", ".", "9", "5">>, <<"1", ".", "1">>, <<".", "5">>,
      <<"1", ".">>, <<"1">>, <<"0", ".", "7", "5", "0">>, <<"2", "e", "-", "1">>,
      <<"i", "n", "f">>, <<"0", "x", "1", "p", "-", "2">>, <<"1", "_", "0">> }

PositiveStrings(o) ==
    IF o.float THEN PositiveFloatStrings ELSE PositiveIntStrings

\* the flag token, the default and the override of option o
FlagOf(o)     == llamaCliArgs[o.cmd]
DefaultOf(o)  == llamaCliArgs[o.val]
OverrideOf(o) == arguments[o.param]

\* wherever the flag token of o is in the vector, val follows it
FollowedBy(o, val) ==
    \A i \in 1..Len(args) :
        args[i] = FlagOf(o) => (i < Len(args) /\ args[i + 1] = val)

\* C17: for each numeric option an override that is zero or negative is
\* ignored and the option falls back to the configured default: a default
\* that is a positive number is emitted after the flag token as the very
\* string of the configuration, and nothing else is ever emitted as the
\* value of the option (default context size "40960" with override 0 gives
\* "--ctx-size", "40960").
C17_FallbackToDefault ==
    Resolved =>
        \A o \in NumericOptions :
            OverrideOf(o) <= 0 =>
                /\ DefaultOf(o) \in PositiveStrings(o) =>
                      EmitsPair(FlagOf(o), DefaultOf(o))
                /\ FollowedBy(o, DefaultOf(o))

C17_Witness ==
    /\ Resolved
    /\ arguments.CtxSize = 0
    /\ arguments.Threads = 0 - 1
    /\ llamaCliArgs.ThreadsVal = <<"+", "8">>
    /\ EmitsPair(llamaCliArgs.ThreadsCmd, <<"+", "8">>)
    /\ EmitsPair(<<"-", "-", "c", "t", "x", "-", "s", "i", "z", "e">>,
                 <<"4", "0", "9", "6", "0">>)

\* the decimal form of the integer overrides of the model, and the form
\* with two fractional digits of its floating-point overrides; the float64
\* of 0.015 and the one of 2.675 are a little below the decimal number
ExpectedInt(n) ==
    CASE n = 3   -> <<"3">>
      [] n = 4   -> <<"4">>
      [] n = 10  -> <<"1", "0">>
      [] n = 12  -> <<"1", "2">>
      [] n = 40  -> <<"4", "0">>
      [] n = 64  -> <<"6", "4">>
      [] n = 100 -> <<"1", "0", "0">>
      [] n = 512 -> <<"5", "1", "2">>

ExpectedFloat(m) ==
    CASE m = 4    -> <<"0", ".", "0", "0">>
      [] m = 15   -> <<"0", ".", "0", "1">>
      [] m = 125  -> <<"0", ".", "1", "2">>
      [] m = 375  -> <<"0", ".", "3", "8">>
      [] m = 700  -> <<"0", ".", "7", "0">>
      [] m = 800  -> <<"0", ".", "8", "0">>
      [] m = 900  -> <<"0", ".", "9", "0">>
      [] m = 1100 -> <<"1", ".", "1", "0">>
      [] m = 1999 -> <<"2", ".", "0", "0">>
      [] m = 2500 -> <<"2", ".", "5", "0">>
      [] m = 2675 -> <<"2", ".", "6", "7">>

ExpectedOverride(o) ==
    IF o.float THEN ExpectedFloat(OverrideOf(o)) ELSE ExpectedInt(OverrideOf(o))

\* the string is digits, a point and two more digits
TwoFractionalDigits(s) ==
    /\ Len(s) >= 4
    /\ s[Len(s) - 2] = "."
    /\ \A i \in (1..Len(s)) \ {Len(s) - 2} : IsDigit(s[i])

\* C18: a numeric override that is present (positive) takes precedence over
\* the configured default, whatever the default is: the flag token is
\* followed by the override, an integer in base 10 without padding, a
\* floating-point number with exactly two fractional digits (0.7 gives
\* "0.70"); a value that is taken from the configuration instead is the
\* configuration string unmodified.
C18_OverrideFormat ==
    Resolved =>
        \A o \in NumericOptions :
            /\ OverrideOf(o) > 0 =>
                  /\ EmitsPair(FlagOf(o), ExpectedOverride(o))
                  /\ o.float => \A i \in 1..(Len(args) - 1) :
                        args[i] = FlagOf(o) => TwoFractionalDigits(args[i + 1])
            /\ (OverrideOf(o) <= 0 /\ ~Omits(FlagOf(o))) =>
                  EmitsPair(FlagOf(o), DefaultOf(o))

C18_Witness ==
    /\ Resolved
    /\ arguments.Temperature = 700
    /\ arguments.Predict = 100
    /\ llamaCliArgs.TemperatureVal = <<"x">>
    /\ llamaCliArgs.PredictVal = <<"2", "5", "6", "0">>
    /\ EmitsPair(<<"-", "-", "t", "e", "m", "p">>, <<"0", ".", "7", "0">>)
    /\ EmitsPair(llamaCliArgs.PredictCmd, <<"1", "0", "0">>)

\* the configured defaults of the model that are not an integer or are
\* too large for an int, and those that are not a number or are too large
\* for a float64
UnparsableIntStrings   ==
    { <<>>, <<"x">>, <<"1", ".", "5">>,
      <<"9", "2", "2", "3", "3", "7", "2", "0", "3", "6", "8", "5", "4", "7",
        "7", "5", "8", "0", "8">> }
UnparsableFloatStrings ==
    { <<>>, <<"x">>, <<".">>, <<"1", "e">>, <<"1", "e", "4", "0", "0">> }

UnparsableStrings(o) ==
    IF o.float THEN UnparsableFloatStrings ELSE UnparsableIntStrings

\* the vector v without the first tok and the element after it
Without(v, tok) ==
    LET i == CHOOSE i \in 1..Len(v) :
                 v[i] = tok /\ \A j \in 1..(i - 1) : v[j] # tok
    IN  SubSeq(v, 1, i - 1) \o SubSeq(v, i + 2, Len(v))

\* the configuration with the default of o replaced by "5"
WithGoodDefault(o) == [ llamaCliArgs EXCEPT ![o.val] = <<"5">> ]

\* C19: when an option has no usable override and its configured default
\* does not parse as an integer (as a number, for a floating-point option),
\* the vector holds neither the flag token nor the default of the option,
\* a vector is returned all the same, and the rest of it is what it is with
\* a default that parses: every other option is emitted as usual.
C19_UnparsableDefault ==
    Resolved =>
        \A o \in NumericOptions :
            (OverrideOf(o) <= 0 /\ DefaultOf(o) \in UnparsableStrings(o)) =>
                /\ Omits(FlagOf(o))
                /\ DefaultOf(o) # <<>> => Omits(DefaultOf(o))
                /\ args = Without(prepareLlamaArgs(WithGoodDefault(o), arguments),
                                  FlagOf(o))

C19_Witness ==
    /\ Resolved
    /\ arguments.Temperature = 0
    /\ llamaCliArgs.TemperatureVal = <<"1", "e">>
    /\ llamaCliArgs.TopPVal = <<"0", ".", "9", "5">>
    /\ Omits(llamaCliArgs.TemperatureCmd)
    /\ EmitsPair(llamaCliArgs.TopPCmd, <<"0", ".", "9", "5">>)
    /\ Len(args) = 30

\* the configured defaults of the model that are a number other than zero,
\* and those that are zero, empty or not a number
NonZeroStrings(o) == PositiveStrings(o) \cup { <<"-", "1">> }
NoValueStrings(o) ==
    UnparsableStrings(o) \cup
        (IF o.float
         THEN { <<"0">>, <<"0", ".", "0">>, <<"1", "e", "-", "4", "0", "0">> }
         ELSE { <<"0">> })

\* C20: when an option has no usable override and its configured default
\* parses to a number other than zero, a negative one such as "-1"
\* included, the vector holds the flag token followed by the default
\* string; only a default that is zero, empty or unparsable gives nothing
\* for the option.
C20_NonZeroDefault ==
    Resolved =>
        \A o \in NumericOptions :
            OverrideOf(o) <= 0 =>
                /\ DefaultOf(o) \in NonZeroStrings(o) =>
                      EmitsPair(FlagOf(o), DefaultOf(o))
                /\ DefaultOf(o) \in NoValueStrings(o) => Omits(FlagOf(o))

----------------------------------------------------------------------------
(* Claims about the options of the vector *)

\* the two options whose value is a path: the model and the log file
StringOptions ==
    { [ cmd |-> "ModelCmd", val |-> "ModelFullPathVal", param |-> "Model" ],
      [ cmd |-> "ModelLogFileCmd", val |-> "ModelLogFileNameVal",
        param |-> "LogFile" ] }

\* C21: for the model path and for the log-file path, a non-empty value of
\* the request is emitted after the option's flag token; with no value in
\* the request the configured default is emitted after the flag token if it
\* is non-empty; with neither, the vector holds nothing for the option.
C21_StringOptions ==
    Resolved =>
        \A o \in StringOptions :
            IF arguments[o.param] # <<>>
            THEN /\ EmitsPair(llamaCliArgs[o.cmd], arguments[o.param])
                 /\ (/\ llamaCliArgs[o.val] # <<>>
                     /\ llamaCliArgs[o.val] # arguments[o.param])
                        => Omits(llamaCliArgs[o.val])
            ELSE IF llamaCliArgs[o.val] # <<>>
            THEN EmitsPair(llamaCliArgs[o.cmd], llamaCliArgs[o.val])
            ELSE Omits(llamaCliArgs[o.cmd])

C21_Witness ==
    /\ Resolved
    /\ arguments.Model = AltOverride
    /\ llamaCliArgs.ModelFullPathVal = <<"/", "m", ".", "g", "g", "u", "f">>
    /\ arguments.LogFile = <<>>
    /\ llamaCliArgs.ModelLogFileNameVal = <<"/", "l", ".", "l", "o", "g">>
    /\ EmitsPair(<<"-", "m">>, AltOverride)
    /\ EmitsPair(<<"-", "-", "l", "o", "g">>, <<"/", "l", ".", "l", "o", "g">>)

\* the flag-token fields of the options prepareLlamaArgs emits, in the
\* order the claim gives; the prompt file and the prompt share one place
OptionOrder ==
    << { "ModelCmd" }, { "ThreadsCmd" }, { "GPULayersCmd" }, { "CtxSizeCmd" },
       { "BatchCmd" }, { "PredictCmd" }, { "TemperatureCmd" }, { "TopKCmd" },
       { "TopPCmd" }, { "RepeatPenaltyCmd" },
       { "PromptFileCmd", "PromptCmd" }, { "ModelLogFileCmd" },
       { "MultilineInputCmd" }, { "FlashAttentionCmd" },
       { "PromptCacheCmd" }, { "NoDisplayPromptCmd" },
       { "EscapeNewLinesCmd" }, { "NoConversationCmd" },
       { "NoContextShiftCmd" } >>

\* the element x is the flag token of the option at place i of OptionOrder
IsFlagOf(x, i) == \E k \in OptionOrder[i] : x = llamaCliArgs[k]

RECURSIVE OptionsAt(_)
\* for each of the first n places of the vector, the places of OptionOrder
\* whose flag token the element is
OptionsAt(n) ==
    IF n = 0 THEN << >>
    ELSE Append(OptionsAt(n - 1),
                { i \in 1..Len(OptionOrder) : IsFlagOf(args[n], i) })

\* C22: the options of the vector are in one fixed order: model, threads,
\* GPU layers, context size, batch size, prediction length, temperature,
\* top-K, top-P, repeat penalty, prompt file or prompt, log file,
\* multiline-input, flash-attention, prompt-cache, no-display-prompt,
\* escape-newlines, no-conversation, no-context-shift; whether a value comes
\* from the request or from the configuration, the flag token of an earlier
\* option is never after the flag token of a later one.
C22_FixedOrder ==
    Resolved =>
        LET at == OptionsAt(Len(args))
        IN  \A p \in 1..Len(args) :
                \A q \in (p + 1)..Len(args) :
                    \A i \in at[p] : \A j \in at[q] : i <= j

C22_Witness ==
    /\ Resolved
    /\ Len(args) = 32
    /\ arguments.Model = <<>>
    /\ arguments.Threads = 4
    /\ args[1] = <<"-", "m">>
    /\ args[2] = <<"/", "m", ".", "g", "g", "u", "f">>
    /\ args[3] = <<"-", "t">>
    /\ args[4] = <<"4">>
    /\ args[21] = <<"-", "f">>
    /\ args[23] = <<"-", "-", "l", "o", "g">>
    /\ args[32] = <<"-", "-", "n", "c", "s">>

\* the switches of the configuration: a flag token and its enabled bit,
\* types.go:271-285; the prompt-cache option, which the claim counts with
\* them, has a path in place of the bit
ConfiguredSwitches ==
    { [ cmd |-> "MultilineInputCmd", on |-> "MultilineInputCmdEnabled" ],
      [ cmd |-> "FlashAttentionCmd", on |-> "FlashAttentionCmdEnabled" ],
      [ cmd |-> "NoDisplayPromptCmd", on |-> "NoDisplayPromptEnabled" ],
      [ cmd |-> "EscapeNewLinesCmd", on |-> "EscapeNewLinesCmdEnabled" ],
      [ cmd |-> "NoConversationCmd", on |-> "NoConversationCmdEnabled" ],
      [ cmd |-> "NoContextShiftCmd", on |-> "NoContextShiftCmdEnabled" ],
      [ cmd |-> "MemLockCmd", on |-> "MemLockCmdEnabled" ],
      [ cmd |-> "LogVerboseCmd", on |-> "LogVerboseEnabled" ] }

\* the elements that are the value of some option: a path, a number, a
\* prompt
IsValue(x) == x # <<>> /\ x[1] # "-"

\* the vector holds tok once, and what follows it, if anything, is the flag
\* token of another option
EmitsSwitch(tok) ==
    /\ Count(args, tok) = 1
    /\ \A i \in 1..(Len(args) - 1) : args[i] = tok => ~IsValue(args[i + 1])

\* C23: every switch of the configuration contributes by its enabled bit
\* alone, whatever the request: an enabled switch, memory-lock and
\* verbose-log included, puts its flag token in the vector once, with no
\* value; a disabled switch puts nothing.
C23_SwitchByEnabledBit ==
    Resolved =>
        \A s \in ConfiguredSwitches :
            IF llamaCliArgs[s.on]
            THEN EmitsSwitch(llamaCliArgs[s.cmd])
            ELSE Omits(llamaCliArgs[s.cmd])

\* the same for the six switches prepareLlamaArgs reads
C23_SwitchesRead ==
    Resolved =>
        \A s \in ConfiguredSwitches :
            s.cmd \notin { "MemLockCmd", "LogVerboseCmd" } =>
                IF llamaCliArgs[s.on]
                THEN EmitsSwitch(llamaCliArgs[s.cmd])
                ELSE Omits(llamaCliArgs[s.cmd])

----------------------------------------------------------------------------
(* Claims about the globals and the server *)

\* what a request gets when it is the only one: the vector and the timeout
\* made from the configuration main parsed
VectorAlone(a) == prepareLlamaArgs(ParseDefaultLlamaCliEnv(llamaEnv), a)
TimeoutAlone == EffectiveTimeout(ParseDefaultAppEnv(env).TimeOutSeconds)

\* C25: handling a request leaves llamaCliArgs and appArgs as main wrote
\* them before the server started; with two requests in the handler, in any
\* interleaving, the argument vector, the timeout and the response of each
\* are the ones it gets alone: made from the parsed configuration, its own
\* arguments and the return of its own executor call, and a step of one
\* request changes nothing of the other.
C25_GlobalsReadOnly ==
    /\ [][started => (llamaCliArgs' = llamaCliArgs /\ appArgs' = appArgs)]_vars
    /\ [](LET parsed == ParseDefaultLlamaCliEnv(llamaEnv)
          IN  /\ started => /\ llamaCliArgs = parsed
                            /\ appArgs = ParseDefaultAppEnv(env)
              /\ (hpc \in { "exec", "done" } /\ ~PromptIsEmpty(arguments)) =>
                     /\ args = prepareLlamaArgs(parsed, arguments)
                     /\ timeoutSeconds = TimeoutAlone
              /\ peer.pc = "exec" =>
                     /\ peer.args = prepareLlamaArgs(parsed, peer.arguments)
                     /\ peer.timeoutSeconds = TimeoutAlone)
    /\ []((hpc = "done" /\ ~PromptIsEmpty(arguments)) =>
             \E e \in { NoErr, ErrDeadlineExceeded } :
                 response = Classify(ret, e, TimeoutAlone))
    /\ [][peer' # peer => UNCHANGED << handlerVars, execVars, events >>]_vars
    /\ [][<< handlerVars, execVars >>' # << handlerVars, execVars >>
             => peer' = peer]_vars

C25_Witness ==
    /\ hpc = "exec"
    /\ proc.state = "running"
    /\ peer.pc = "done"
    /\ arguments = PromptOnly
    /\ peer.arguments = EveryOverride
    /\ peer.args # args
    /\ args = VectorAlone(PromptOnly)
    /\ Count(args, <<"/", "m", ".", "g", "g", "u", "f">>) = 1

\* C26: when GenerateSingleCompletionWithCancel has returned, the context
\* the child was started under is done, on the path where the done signal
\* won and on the path where the result won; a child that is still running
\* then has its termination pending (the kill of exec.CommandContext can be
\* taken), and a goroutine whose Start has not yet looked at the context
\* starts no child.
C26_TerminationRequested ==
    epc = "returned" =>
        /\ ctx \notin { NoCtx, NoErr }
        /\ proc.state = "running" => ENABLED ChildKill
        /\ gpc = "start" => CmdStart(appArgs.LLamaCliPath, ctx) # NoErr

C26_Witness ==
    /\ epc = "returned"
    /\ seen.done
    /\ ~seen.result
    /\ proc.state = "running"
    /\ hist.doneAt = "running"
    /\ ENABLED ChildKill

\* the flag-token fields of the options whose flag is followed by a value
ValueOptionKeys ==
    { o.cmd : o \in StringOptions } \cup { o.cmd : o \in NumericOptions }
    \cup { "PromptFileCmd", "PromptCmd", "PromptCacheCmd" }

\* the flag tokens of the configuration
ConfiguredTokens == { llamaCliArgs[k] : k \in TokenKeys }

\* x is a value the option with flag token tok can be given, for the
\* configuration and the request of the state: the configured default or
\* the value of the request, formatted
IsValueOf(x, tok) ==
    \/ \E o \in StringOptions :
          /\ tok = llamaCliArgs[o.cmd]
          /\ x \in { llamaCliArgs[o.val], arguments[o.param] }
    \/ \E o \in NumericOptions :
          /\ tok = llamaCliArgs[o.cmd]
          /\ \/ x = llamaCliArgs[o.val]
             \/ OverrideOf(o) > 0 /\ x = ExpectedOverride(o)
    \/ tok = llamaCliArgs.PromptFileCmd /\ x = arguments.PromptFile
    \/ tok = llamaCliArgs.PromptCmd /\ x = arguments.Prompt
    \/ tok = llamaCliArgs.PromptCacheCmd /\ x = llamaCliArgs.PromptCacheVal

\* place i of the vector holds a non-empty value of the option whose flag
\* token is at place i - 1
IsValueAt(i) ==
    /\ i > 1
    /\ i <= Len(args)
    /\ args[i] # <<>>
    /\ IsValueOf(args[i], args[i - 1])

RECURSIVE ValuesAt(_)
\* for each of the first n places of the vector, whether IsValueAt holds
ValuesAt(n) ==
    IF n = 0 THEN << >> ELSE Append(ValuesAt(n - 1), IsValueAt(n))

\* C27: every element of the vector is the value of a flag-token field of
\* the configuration, no flag being a literal of the code, or it is a
\* non-empty value immediately after the flag token of its own option;
\* every value of the vector is immediately after the flag token of its own
\* option; the flag token of an option with a value is in the vector only
\* with a non-empty value after it.
C27_TokensFromConfiguration ==
    Resolved =>
        LET value  == ValuesAt(Len(args)) \o << FALSE >>
            tokens == ConfiguredTokens
            valued == { llamaCliArgs[k] : k \in ValueOptionKeys }
        IN  /\ \A i \in 1..Len(args) : value[i] \/ args[i] \in tokens
            /\ \A i \in 1..Len(args) : IsValue(args[i]) => value[i]
            /\ \A i \in 1..Len(args) :
                  (args[i] \in valued /\ ~value[i]) => value[i + 1]

C27_Witness ==
    /\ Resolved
    /\ llamaCliArgs.TemperatureCmd = AltToken
    /\ arguments.Model = <<>>
    /\ arguments.Temperature = 800
    /\ EmitsPair(AltToken, <<"0", ".", "8", "0">>)
    /\ EmitsPair(<<"-", "m">>, <<"/", "m", ".", "g", "g", "u", "f">>)
    /\ Omits(<<"-", "-", "t", "e", "m", "p">>)

\* the flag-token fields of the options prepareLlamaArgs draws from
OptionKeys == UNION { OptionOrder[i] : i \in 1..Len(OptionOrder) }

\* the fields of the configured options the claim names as never emitted:
\* seed, main GPU, keep, threads-batch, micro-batch, min-P, repeat-last-n,
\* chat template, RoPE settings, reverse prompt, input prefix and suffix,
\* split mode
OutsideKeys ==
    { "RandomSeedCmd", "RandomSeedCmdVal", "MainGPUCmd", "MainGPUVal",
      "KeepCmd", "KeepVal", "ThreadsBatchCmd", "ThreadsBatchVal",
      "UBatchCmd", "UBatchCmdVal", "MinPCmd", "MinPVal",
      "RepeatLastPenaltyCmd", "RepeatLastPenaltyVal", "ChatTemplateCmd",
      "ChatTemplateVal", "RopeScalingCmd", "RopeScalingCmdVal",
      "RopeScaleCmd", "RopeScaleVal", "YarnOrigContextCmd",
      "YarnOrigContextCmdVal", "ReversePromptCmd", "ReversePromptVal",
      "InPrefixCmd", "InPrefixVal", "InSuffixCmd", "InSuffixVal",
      "SplitModeCmd", "SplitModeCmdVal" }

\* C28: the vector is drawn from a fixed set of options: every flag of the
\* vector is the flag token of one of the twelve options a request can
\* override, of the prompt, of the prompt cache or of a switch that
\* prepareLlamaArgs reads, and there is at most one of each; of a configured
\* option outside the set (seed, main GPU, keep, threads-batch, micro-batch,
\* min-P, repeat-last-n, chat template, RoPE settings, reverse prompt, input
\* prefix and suffix, split mode) the flag token is not in the vector,
\* whatever the configuration gives it, and an element equal to its value is
\* there as the value of an option of the set (the configured micro-batch
\* "512" can equal a context size of the request).
C28_FixedOptionSet ==
    Resolved =>
        LET value   == ValuesAt(Len(args))
            options == { llamaCliArgs[k] : k \in OptionKeys }
            outside == { llamaCliArgs[k] : k \in OutsideKeys \cap TokenKeys }
                           \ { <<>> }
            others  == { llamaCliArgs[k] : k \in OutsideKeys \ TokenKeys }
                           \ { <<>> }
        IN  /\ \A i \in 1..Len(args) : value[i] \/ args[i] \in options
            /\ \A k \in OptionKeys : Count(args, llamaCliArgs[k]) <= 1
            /\ Len(args) <= 2 * 13 + 6
            /\ \A i \in 1..Len(args) : args[i] \notin outside
            /\ \A i \in 1..Len(args) : args[i] \in others => value[i]

C28_Witness ==
    /\ Resolved
    /\ llamaCliArgs.RandomSeedCmd = <<"-", "s">>
    /\ llamaCliArgs.RandomSeedCmdVal = AltValue
    /\ llamaCliArgs.ChatTemplateVal # <<>>
    /\ Omits(<<"-", "s">>)
    /\ Omits(AltValue)
    /\ Len(args) = 32

\* the lines of mlog written by the first select of main, and by the second
FirstSelectTook(x) == Len(mlog) >= 1 /\ x \in { mlog[i] : i \in 1..Len(mlog) }
EndedBy == mlog[Len(mlog)]

\* C29: main always reaches 'Application shutdown complete': once a
\* shutdown signal or the result of runServer is there for the first select,
\* main cancels the server context and then waits for the result of
\* runServer or for ShutdownTimeout, and returns.  One value at most is sent
\* on serverErr and one at most is received; when the first select received
\* it, the second select ends by the timeout.  The sends on serverErr and on
\* errChan find room in their channel: the sending goroutines do not block.
C29_ShutdownCompletes ==
    /\ (mpc = "select1" /\ (quit > 0 \/ serverErr # <<>>)) ~> (mpc = "done")
    /\ [](mpc \in { "select2", "done" } =>
             sctx = ErrCanceled /\ shutdownCtx # NoCtx)
    /\ [](Count(mlog, "send serverErr") <= 1)
    /\ [](Count(mlog, "receive serverErr")
            + Count(mlog, "Server shutdown complete") <= 1)
    /\ []((mpc = "done" /\ FirstSelectTook("receive serverErr")) =>
             EndedBy = "Forced shutdown after timeout")
    /\ [](rpc = "send" => Len(serverErr) < ChanCap)
    /\ [](spc.pc = "send" => Len(errChan) < ChanCap)
    /\ [](Len(serverErr) <= ChanCap /\ Len(errChan) <= ChanCap)

C29_Witness ==
    /\ mpc = "done"
    /\ mlog = << "send serverErr", "receive serverErr",
                 "Forced shutdown after timeout" >>
    /\ rret = ErrListen
    /\ shutdownCtx = ErrDeadlineExceeded
    /\ serverErr = <<>>

\* main has begun the shutdown: the server context is cancelled
ShutdownBegun == sctx = ErrCanceled

\* the request is in the executor
InFlight == hpc = "exec"

\* the deadline of the request has passed
DeadlineElapsed == pctx.err = ErrDeadlineExceeded

\* C30: the context handleCompletionTool gives the executor is made from
\* context.Background with a timeout alone, and the server context does not
\* reach a request: while a request is in flight its context is not done or
\* is done by its deadline; the executor never returns the cancelled
\* error to the handler and no response is made from it; the child is
\* killed only when the deadline of the request has passed; and a shutdown
\* does not interrupt a request in flight before its deadline: when main
\* has returned and the process ends, a request that is still in flight
\* has passed its deadline.
C30_ShutdownNotPropagated ==
    /\ InFlight =>
          /\ pctx.hasDeadline
          /\ ~pctx.cancellable
          /\ pctx.err \in { NoErr, ErrDeadlineExceeded }
          /\ epc # "returned" => ctx \in { NoCtx, NoErr, ErrDeadlineExceeded }
    /\ ret.err # ErrCanceled /\ response # ErrorMsg(ErrCanceled)
    /\ proc.state = "killed" => DeadlineElapsed
    /\ (ShutdownBegun /\ ~Running /\ InFlight) => DeadlineElapsed

====
